---- MODULE Spec2Model ----
(***************************************************************************)
(* PixelPanel backend: comic panel generation (api/comics.py,              *)
(* services/comic_generator.py), voice-over (api/voice_over.py),           *)
(* authentication (auth_shared.py), the Stripe webhooks (api/stripe.py,    *)
(* api/stripe_webhook.py) and the border normalizer.                       *)
(***************************************************************************)
EXTENDS Integers, Sequences, FiniteSets, TLC

VARIABLES
    credits,    \* credit ledger: balance of every user
    comics,     \* database table comics: comic id -> row
    panels,     \* database table comic_panels: panel id -> row
    files,      \* object storage: the paths that hold a file
    uploads,    \* number of regenerated images uploaded so far
    phase,      \* "idle": no request in progress; "done": a handler has run
    req,        \* the request the last handler was given
    resp,       \* the response of the last handler
    trace,      \* the steps the last handler took, in order
    genargs,    \* the arguments of each comic_generator.generate_comic_art call
    sent,       \* the prompt_parts of each model.generate_content call
    synth,      \* what the image model answered to the last handler
    bimage,     \* border normalizer: the image the next pass reads
    bprev,      \* border normalizer: the image the last pass read
    bpasses,    \* border normalizer: number of passes applied so far
    narrations, \* number of narrations generated so far
    memo,       \* what the first composed /generate request of a probe input was given and sent
    auth_call,  \* get_current_user: the request header and the auth server's behaviour
    auth_result,\* get_current_user: what the call returned or raised
    story_call, \* generate_story: the story and the text model's behaviour
    story_result,\* generate_story: what the call returned or raised
    profiles,   \* database table user_profiles: user id -> row
    hook_call,  \* Stripe webhook: the request received
    hook_result,\* Stripe webhook: the response given
    hooks,      \* number of webhook requests handled so far
    edits       \* number of library requests (save, update, visibility, delete) handled so far

dbvars == <<comics, panels, files, uploads>>
svars == <<credits, comics, panels, files, uploads, phase, req, resp, trace, genargs, sent, synth>>
bvars == <<bimage, bprev, bpasses>>
avars == <<auth_call, auth_result>>
yvars == <<story_call, story_result>>
wvars == <<profiles, hook_call, hook_result, hooks>>
vars == <<credits, comics, panels, files, uploads, phase, req, resp, trace, genargs, sent, synth, bimage, bprev, bpasses, narrations, memo, auth_call, auth_result, story_call, story_result, profiles, hook_call, hook_result, hooks, edits>>

(***************************************************************************)
(* Bounds of the model.                                                    *)
(***************************************************************************)
MaxW == 3
MaxH == 3
MaxPasses == 2
MaxFaults == 1
MaxUploads == 1
MaxNarrations == 1
MaxTokenLen == 5
MaxStoryLen == 5
MaxHooks == 1
MaxEdits == 1

(***************************************************************************)
(* Raster images.  An image is a grid px of uniform blocks, each block uw  *)
(* pixels wide and uh pixels high (uw = uh = 1: one block per pixel).      *)
(* A raster row repeats every value of its grid row uw times, so np.var of *)
(* the raster row is the variance of the grid row; likewise for columns.   *)
(***************************************************************************)
PixelValues == {0, 7}

Height(image) == image.uh * Len(image.px)
Width(image) == image.uw * Len(image.px[1])
Size(image) == <<Width(image), Height(image)>>

RECURSIVE SumSeq(_)
SumSeq(line) == IF Len(line) = 0 THEN 0 ELSE Head(line) + SumSeq(Tail(line))

RECURSIVE SumSq(_)
SumSq(line) == IF Len(line) = 0 THEN 0 ELSE Head(line) * Head(line) + SumSq(Tail(line))

\* mutant: a line whose variance equals the threshold is a border too
is_border_line_inclusive(line, threshold) ==
    Len(line) * SumSq(line) - SumSeq(line) * SumSeq(line) <= threshold * Len(line) * Len(line)

\* np.var(line) < threshold, with var = SumSq/n - (Sum/n)^2, cleared of fractions
is_border_line(line, threshold) ==
    Len(line) * SumSq(line) - SumSeq(line) * SumSeq(line) < threshold * Len(line) * Len(line)

RowLine(image, i) == image.px[i]
ColLine(image, j) == [r \in 1..Len(image.px) |-> image.px[r][j]]

SetMin(S) == CHOOSE x \in S : \A y \in S : x <= y
SetMax(S) == CHOOSE x \in S : \A y \in S : x >= y

\* image.crop((left, top, right, bottom)) for a box on block boundaries
Crop(image, left, top, right, bottom) ==
    [uw |-> image.uw, uh |-> image.uh,
     px |-> [i \in 1..((bottom - top) \div image.uh) |->
               [j \in 1..((right - left) \div image.uw) |->
                  image.px[(top \div image.uh) + i][(left \div image.uw) + j]]]]

\* the four scans of remove_borders: first and last line that is not a border
FindTop(image, threshold) ==
    LET nb == {i \in 1..Len(image.px) : ~is_border_line(RowLine(image, i), threshold)}
    IN  IF nb = {} THEN 0 ELSE image.uh * (SetMin(nb) - 1)

\* mutant: bottom = i instead of i + 1
FindBottomOffByOne(image, threshold) ==
    LET nb == {i \in 1..Len(image.px) : ~is_border_line(RowLine(image, i), threshold)}
    IN  IF nb = {} THEN Height(image) ELSE image.uh * (SetMax(nb) - 1)

FindBottom(image, threshold) ==
    LET nb == {i \in 1..Len(image.px) : ~is_border_line(RowLine(image, i), threshold)}
    IN  IF nb = {} THEN Height(image) ELSE image.uh * SetMax(nb)

FindLeft(image, threshold) ==
    LET nb == {j \in 1..Len(image.px[1]) : ~is_border_line(ColLine(image, j), threshold)}
    IN  IF nb = {} THEN 0 ELSE image.uw * (SetMin(nb) - 1)

\* mutant: right starts at 0 instead of width
FindRightFromZero(image, threshold) ==
    LET nb == {j \in 1..Len(image.px[1]) : ~is_border_line(ColLine(image, j), threshold)}
    IN  IF nb = {} THEN 0 ELSE image.uw * SetMax(nb)

FindRight(image, threshold) ==
    LET nb == {j \in 1..Len(image.px[1]) : ~is_border_line(ColLine(image, j), threshold)}
    IN  IF nb = {} THEN Width(image) ELSE image.uw * SetMax(nb)

remove_borders(image, threshold) ==
    LET top == FindTop(image, threshold)
        bottom == FindBottom(image, threshold)
        left == FindLeft(image, threshold)
        right == FindRight(image, threshold)
    IN  IF top > 0 \/ bottom < Height(image) \/ left > 0 \/ right < Width(image)
        THEN Crop(image, left, top, right, bottom)
        ELSE image

DefaultThreshold == 10

(***************************************************************************)
(* Image payloads of a request.  A payload is the base64 text the client   *)
(* sends: enc tells how base64.b64decode treats it, img names the image    *)
(* its bytes hold (NoImg: bytes that PIL cannot identify as an image).     *)
(***************************************************************************)
NoImg == "-"
None == [enc |-> "none", img |-> NoImg]            \* Python None
EmptyStr == [enc |-> "empty", img |-> NoImg]       \* ""
BadPadding == [enc |-> "badpad", img |-> NoImg]    \* "abc": b64decode raises
NotAnImage == [enc |-> "ok", img |-> NoImg]        \* base64 of bytes that are no image
B64(name) == [enc |-> "ok", img |-> name]          \* base64 of the PNG of an image

\* Python truthiness of an optional string
Truthy(data) == data.enc \notin {"none", "empty"}

\* base64.b64decode(data): raises binascii.Error on wrong padding
b64decode(data) ==
    IF data.enc = "badpad"
    THEN [ok |-> FALSE, bytes |-> NoImg]
    ELSE [ok |-> TRUE, bytes |-> IF data.enc = "ok" THEN data.img ELSE NoImg]

\* Image.open(BytesIO(bytes)): raises UnidentifiedImageError on bytes that are no image
ImageOpen(bytes) == [ok |-> bytes # NoImg, img |-> bytes]

\* a part of prompt_parts: a PIL image or a text
ImagePart(name) == [type |-> "image", img |-> name, text |-> ""]
TextPart(text) == [type |-> "text", img |-> NoImg, text |-> text]

\* the conditioning images of a prompt_parts list, in order
ImagesOf(parts) ==
    LET imgs == SelectSeq(parts, LAMBDA p : p.type = "image")
    IN  [i \in 1..Len(imgs) |-> imgs[i].img]

\* the system instructions of _generate_art (first sentence and aspect ratio)
SystemPromptCover ==
    "You are a comic book cover art generator. 3:4 aspect ratio (portrait orientation)"
SystemPromptContinuation ==
    "You are a comic art generator creating the next scene in a comic sequence. 4:3 aspect ratio (landscape orientation)"
SystemPromptFirstPanel ==
    "You are a comic art generator. 4:3 aspect ratio (landscape orientation)"

\* mutant: the context is looked at before is_thumbnail
SystemPromptContextFirst(is_thumbnail, has_context) ==
    IF has_context THEN SystemPromptContinuation
    ELSE IF is_thumbnail THEN SystemPromptCover
    ELSE SystemPromptFirstPanel

SystemPrompt(is_thumbnail, has_context) ==
    IF is_thumbnail THEN SystemPromptCover
    ELSE IF has_context THEN SystemPromptContinuation
    ELSE SystemPromptFirstPanel

\* f"{system_prompt}\n\nText prompt: {text_prompt}"
PromptText(system_prompt, text_prompt) == system_prompt \o "\n\nText prompt: " \o text_prompt

(***************************************************************************)
(* The answer of the image model to one generate_content call.             *)
(***************************************************************************)
NoImage == [uw |-> 0, uh |-> 0, px |-> <<>>]
TextOnlyPart == [inline |-> "none", image |-> NoImage]      \* part.inline_data is None
BadInlinePart == [inline |-> "bad", image |-> NoImage]      \* inline_data PIL cannot load
InlineImage(image) == [inline |-> "image", image |-> image]

NoSynth == [raises |-> FALSE, candidates |-> FALSE, parts |-> <<>>, called |-> FALSE]
SynthRaises == [raises |-> TRUE, candidates |-> FALSE, parts |-> <<>>, called |-> TRUE]
SynthNoCandidates == [raises |-> FALSE, candidates |-> FALSE, parts |-> <<>>, called |-> TRUE]
SynthParts(parts) == [raises |-> FALSE, candidates |-> TRUE, parts |-> parts, called |-> TRUE]

Ok(image, calls) == [raised |-> FALSE, image |-> image, error |-> "", calls |-> calls]
Raise(error, calls) == [raised |-> TRUE, image |-> NoImage, error |-> error, calls |-> calls]

\* mutant: a blank 1x1 image stands in for an answer without image data
ProcessResponseDefault(prompt_parts, out) ==
    LET inl == SelectSeq(out.parts, LAMBDA p : p.inline # "none")
        calls == <<prompt_parts>>
    IN  IF out.raises THEN Raise("Error generating comic art: model call failed", calls)
        ELSE IF ~out.candidates \/ inl = <<>> \/ Head(inl).inline = "bad"
        THEN Ok([uw |-> 1, uh |-> 1, px |-> <<<<0>>>>], calls)
        ELSE Ok(Head(inl).image, calls)

\* mutant: a failed generate_content call is made a second time
ProcessResponseRetry(prompt_parts, out) ==
    LET inl == SelectSeq(out.parts, LAMBDA p : p.inline # "none")
    IN  IF out.raises
        THEN Raise("Error generating comic art: model call failed", <<prompt_parts, prompt_parts>>)
        ELSE IF ~out.candidates
        THEN Raise("Error generating comic art: list index out of range", <<prompt_parts>>)
        ELSE IF inl = <<>>
        THEN Raise("Error generating comic art: No image data found in response", <<prompt_parts>>)
        ELSE IF Head(inl).inline = "bad"
        THEN Raise("Error generating comic art: Invalid image data received", <<prompt_parts>>)
        ELSE Ok(Head(inl).image, <<prompt_parts>>)

\* the try block of _generate_art: one generate_content call and the scan of its parts
ProcessResponse(prompt_parts, out) ==
    LET inl == SelectSeq(out.parts, LAMBDA p : p.inline # "none")
        calls == <<prompt_parts>>
    IN  IF out.raises THEN Raise("Error generating comic art: model call failed", calls)
        ELSE IF ~out.candidates THEN Raise("Error generating comic art: list index out of range", calls)
        ELSE IF inl = <<>> THEN Raise("Error generating comic art: No image data found in response", calls)
        ELSE IF Head(inl).inline = "bad"
             THEN Raise("Error generating comic art: Invalid image data received", calls)
        ELSE Ok(Head(inl).image, calls)

\* mutant: prompt_parts.append(context_img)
AppendContext(prompt_parts, context_img) == prompt_parts \o <<ImagePart(context_img)>>

\* prompt_parts.insert(0, context_img)
InsertContext(prompt_parts, context_img) == <<ImagePart(context_img)>> \o prompt_parts

\* mutant: the context image is used without a check that it decodes
ContextImageUnchecked(context_image_data) == [ok |-> TRUE, img |-> context_image_data.img]

\* the decoding of context_image_data (a base64 string) in _generate_art
ContextImage(context_image_data) ==
    LET dec == b64decode(context_image_data)
    IN  IF dec.ok THEN ImageOpen(dec.bytes) ELSE [ok |-> FALSE, img |-> NoImg]

\* reference_image_path: NoImg as a path stands for None, else the bytes of the file
_generate_art(text_prompt, reference_image_path, context_image_data, is_thumbnail, out) ==
    LET has_context == context_image_data.enc # "none"
        text == TextPart(PromptText(SystemPrompt(is_thumbnail, has_context), text_prompt))
        ref == ImageOpen(reference_image_path.bytes)
        ctx == ContextImage(context_image_data)
    IN  IF reference_image_path.exists
        THEN IF ~ref.ok
             THEN Raise("Error processing reference image", <<>>)
             ELSE IF has_context /\ ctx.ok
                  THEN ProcessResponse(InsertContext(<<ImagePart(ref.img), text>>, ctx.img), out)
                  ELSE ProcessResponse(<<ImagePart(ref.img), text>>, out)
        ELSE IF has_context /\ ctx.ok
             THEN ProcessResponse(<<ImagePart(ctx.img), text>>, out)
             ELSE ProcessResponse(<<text>>, out)

NoPath == [exists |-> FALSE, bytes |-> NoImg]

\* mutant: the reference image is never written to the temporary file
ReferenceImagePathNone(reference_image_data) == NoPath

\* the temporary file generate_comic_art writes the decoded reference image to
ReferenceImagePath(reference_image_data) ==
    IF Truthy(reference_image_data) /\ b64decode(reference_image_data).ok
    THEN [exists |-> TRUE, bytes |-> b64decode(reference_image_data).bytes]
    ELSE NoPath

generate_comic_art(text_prompt, reference_image_data, context_image_data, is_thumbnail, out) ==
    LET art == _generate_art(text_prompt, ReferenceImagePath(reference_image_data),
                             context_image_data, is_thumbnail, out)
    IN  IF art.raised THEN art
        ELSE [art EXCEPT !.image = remove_borders(art.image, DefaultThreshold)]

\* image_to_base64(image): the base64 text of the PNG of the image
image_to_base64(image) == [png |-> image]

(***************************************************************************)
(* The credit ledger (UserCreditsService over the database's stored        *)
(* procedures).  faults: the remote calls that fail during the request.    *)
(***************************************************************************)
FaultSets(calls) == {f \in SUBSET calls : Cardinality(f) <= MaxFaults}
CreditCalls == {"has_sufficient_credits", "deduct_credits"}
Users == {"u1", "u2"}
InitialBalances == {0, 10}
PanelCredits == 10

\* the stored procedures has_sufficient_credits and deduct_user_credits of the database
RpcHasSufficientCredits(balance, required_credits) == balance >= required_credits
RpcDeductUserCredits(balance, credits_to_deduct) ==
    IF balance >= credits_to_deduct
    THEN [raised |-> FALSE, balance |-> balance - credits_to_deduct]
    ELSE [raised |-> TRUE, balance |-> balance]

\* has_sufficient_credits: False on any exception of the remote call
has_sufficient_credits(balance, required_credits, faults) ==
    IF "has_sufficient_credits" \in faults THEN FALSE
    ELSE RpcHasSufficientCredits(balance, required_credits)

\* deduct_credits: re-raises any exception of the remote call
deduct_credits(balance, credits_to_deduct, faults) ==
    IF "deduct_credits" \in faults THEN [raised |-> TRUE, balance |-> balance]
    ELSE RpcDeductUserCredits(balance, credits_to_deduct)

(***************************************************************************)
(* Requests and responses.                                                 *)
(***************************************************************************)
TextPrompts == {"", " ", "a dragon appears"}
ContextPrompts == {"a hero stands on a hill"}
ReferencePayloads == {None, EmptyStr, BadPadding, NotAnImage, B64("R")}
ContextPayloads == {EmptyStr, BadPadding, NotAnImage, B64("P")}
PromptLists == {<<>>, <<"a cat">>, <<"a cat", "a wall", "a dog", "a bird">>}

NoContext == [present |-> FALSE, prompt |-> "", image_data |-> None]
PanelContexts ==
    {NoContext} \cup [present : {TRUE}, prompt : ContextPrompts, image_data : ContextPayloads]

NoRequest ==
    [endpoint |-> "", user |-> "", text_prompt |-> "", reference_image |-> None,
     previous_panel_context |-> NoContext, prompts |-> <<>>, panel_id |-> "",
     narration |-> "", speed |-> 10, comic_id |-> "", title |-> "", is_public |-> FALSE,
     prompt |-> "", regenerate_audio |-> FALSE, panels |-> <<>>, thumbnail_data |-> None]

NoData == [png |-> NoImage]
NoResponse ==
    [status |-> 0, success |-> FALSE, image_data |-> NoData, public_url |-> "", detail |-> "",
     audio |-> ""]
Success(image_data) ==
    [status |-> 200, success |-> TRUE, image_data |-> image_data, public_url |-> "", detail |-> "",
     audio |-> ""]
HTTPException(status_code, detail) ==
    [status |-> status_code, success |-> FALSE, image_data |-> NoData, public_url |-> "",
     detail |-> detail, audio |-> ""]

\* the images the model may answer with: blocks of 300x400 or 400x300 pixels
BlockSizes == {<<300, 400>>, <<400, 300>>}
SampleGrids ==
    { <<<<0, 7>>, <<7, 0>>>>,      \* no border
      <<<<0, 0>>, <<0, 7>>>>,      \* uniform top row and left column
      <<<<0, 0>>, <<0, 0>>>> }     \* uniform image
SynthImages == {[uw |-> b[1], uh |-> b[2], px |-> g] : b \in BlockSizes, g \in SampleGrids}
SynthOutcomes ==
    {SynthRaises, SynthNoCandidates, SynthParts(<<TextOnlyPart>>), SynthParts(<<BadInlinePart>>)}
    \cup {SynthParts(<<TextOnlyPart, InlineImage(i)>>) : i \in SynthImages}
    \cup {SynthParts(<<BadInlinePart, InlineImage(i)>>) : i \in {j \in SynthImages : j.uw = 400 /\ j.px[1][2] = 7}}

GenArgs(text_prompt, reference_image_data, context_image_data, is_thumbnail) ==
    [text_prompt |-> text_prompt, reference_image_data |-> reference_image_data,
     context_image_data |-> context_image_data, is_thumbnail |-> is_thumbnail]

\* mutant: the borders are removed before the model is asked
ArtTraceBordersFirst(art) ==
    (IF art.raised THEN <<>> ELSE <<"remove_borders">>)
    \o (IF art.calls # <<>> THEN <<"generate_content">> ELSE <<>>)

\* the steps a generate_comic_art call leaves in the trace
ArtTrace(art) ==
    (IF art.calls # <<>> THEN <<"generate_content">> ELSE <<>>)
    \o (IF art.raised THEN <<>> ELSE <<"remove_borders">>)

Outcome(response, steps, args, calls, out, balances) ==
    [resp |-> response, trace |-> steps, genargs |-> args, sent |-> calls,
     synth |-> out, credits |-> balances, panels |-> panels, files |-> files,
     uploads |-> uploads, narrations |-> narrations, memo |-> memo]

\* mutant: a failed deduction fails the request
AfterDeductionRaises(response, ded) ==
    IF ded.raised THEN HTTPException(500, "Failed to deduct credits") ELSE response

\* try: deduct_credits(...) except Exception: the error is logged and the response stands
AfterDeduction(response, ded) == response

\* mutant: the credits are taken before the generator runs
ChargedUpFront(user, ded, failed) == [credits EXCEPT ![user] = ded.balance]

\* the balances after a handler: deduct_credits is reached only when nothing raised before it
Charged(user, ded, failed) ==
    IF failed THEN credits ELSE [credits EXCEPT ![user] = ded.balance]

\* mutant: the new prompt text placed before the previous prompt
ContextPromptSwapped(previous_prompt, text_prompt) ==
    "Create the next scene using this context: " \o text_prompt \o ". " \o previous_prompt

\* f"Create the next scene using this context: {previous_panel_context.prompt}. {text_prompt}"
ContextPrompt(previous_prompt, text_prompt) ==
    "Create the next scene using this context: " \o previous_prompt \o ". " \o text_prompt

\* mutant: without a context in the request, the prompt of a remembered earlier panel is used
ComposedPromptRemembered(r) ==
    IF r.previous_panel_context.present
    THEN ContextPrompt(r.previous_panel_context.prompt, r.text_prompt)
    ELSE IF memo.set THEN ContextPrompt(memo.genargs[1].text_prompt, r.text_prompt)
    ELSE r.text_prompt

\* the text_prompt handed to the generator: built from the fields of the request alone
ComposedPrompt(r) ==
    IF r.previous_panel_context.present
    THEN ContextPrompt(r.previous_panel_context.prompt, r.text_prompt)
    ELSE r.text_prompt

(***************************************************************************)
(* POST /api/comics/generate                                               *)
(***************************************************************************)
GenerateOutcome(r, faults, out) ==
    LET user == r.user
        ctx == r.previous_panel_context
        text_prompt == ComposedPrompt(r)
        context_image_data == IF ctx.present THEN ctx.image_data ELSE None
        art == generate_comic_art(text_prompt, r.reference_image, context_image_data, FALSE, out)
        args == <<GenArgs(text_prompt, r.reference_image, context_image_data, FALSE)>>
        used == IF art.calls # <<>> THEN out ELSE NoSynth
        ded == deduct_credits(credits[user], PanelCredits, faults)
    IN  IF ~has_sufficient_credits(credits[user], PanelCredits, faults)
        THEN \* the HTTPException(402) is raised inside the try and caught by except Exception
             Outcome(HTTPException(500, "Error generating comic art: 402: Insufficient credits"),
                     <<"has_sufficient_credits", "respond">>, <<>>, <<>>, NoSynth, credits)
        ELSE IF art.raised
        THEN Outcome(HTTPException(500, "Error generating comic art: " \o art.error),
                     <<"has_sufficient_credits", "compose">> \o ArtTrace(art) \o <<"respond">>,
                     args, art.calls, used, Charged(user, ded, TRUE))
        ELSE Outcome(AfterDeduction(Success(image_to_base64(art.image)), ded),
                     <<"has_sufficient_credits", "compose">> \o ArtTrace(art)
                        \o <<"image_to_base64", "deduct_credits", "respond">>,
                     args, art.calls, used, Charged(user, ded, FALSE))

\* when recording is on, the first /generate request with a probe input that reached the
\* generator is remembered, so that later requests with the same input can be compared with it
NoMemo ==
    [on |-> FALSE, set |-> FALSE, user |-> "", key |-> <<>>, genargs |-> <<>>, sent |-> <<>>]
ComposeKey(r) == <<r.text_prompt, r.reference_image, r.previous_panel_context>>
Probe(r) == r.text_prompt = "a dragon appears" /\ r.reference_image = B64("R")
Memoize(r, o) ==
    IF memo.on /\ ~memo.set /\ Probe(r) /\ o.genargs # <<>>
    THEN [o EXCEPT !.memo = [on |-> TRUE, set |-> TRUE, user |-> r.user, key |-> ComposeKey(r),
                             genargs |-> o.genargs, sent |-> o.sent]]
    ELSE o

Handle(r, o) ==
    /\ phase' = "done"
    /\ req' = r
    /\ resp' = o.resp
    /\ trace' = o.trace
    /\ genargs' = o.genargs
    /\ sent' = o.sent
    /\ synth' = o.synth
    /\ credits' = o.credits
    /\ panels' = o.panels
    /\ files' = o.files
    /\ uploads' = o.uploads
    /\ narrations' = o.narrations
    /\ memo' = o.memo
    /\ UNCHANGED <<comics, bvars, avars, yvars, wvars, edits>>

GenerateComicArt ==
    /\ phase = "idle"
    /\ \E user \in Users, text_prompt \in TextPrompts, reference_image \in ReferencePayloads,
       ctx \in PanelContexts, faults \in FaultSets(CreditCalls), out \in SynthOutcomes :
        LET r == [NoRequest EXCEPT !.endpoint = "generate", !.user = user,
                                   !.text_prompt = text_prompt,
                                   !.reference_image = reference_image,
                                   !.previous_panel_context = ctx]
        IN  Handle(r, Memoize(r, GenerateOutcome(r, faults, out)))

(***************************************************************************)
(* POST /api/comics/generate-thumbnail                                     *)
(***************************************************************************)
TargetWidth == 600
TargetHeight == 800

\* prompts[:3]
FirstThree(prompts) == SubSeq(prompts, 1, IF Len(prompts) < 3 THEN Len(prompts) ELSE 3)

\* ', '.join(prompts)
RECURSIVE Join(_)
Join(prompts) ==
    IF Len(prompts) = 0 THEN ""
    ELSE IF Len(prompts) = 1 THEN Head(prompts)
    ELSE Head(prompts) \o ", " \o Join(Tail(prompts))

CombinedPrompt(prompts) == "Comic book cover art featuring: " \o Join(FirstThree(prompts))

\* image.resize((width, height), LANCZOS): a raster of that size resampled from image
Resize(image, width, height) == [size |-> <<width, height>>, from |-> image]

\* image.size of an image that may have been resized
ImageSize(image) == IF "size" \in DOMAIN image THEN image.size ELSE Size(image)

\* mutant: the thumbnail is returned at the size the generator produced
EnsureThumbnailSizeNoop(image) == image

EnsureThumbnailSize(image) ==
    IF Size(image) # <<TargetWidth, TargetHeight>>
    THEN Resize(image, TargetWidth, TargetHeight)
    ELSE image

ThumbnailOutcome(r, faults, out) ==
    LET user == r.user
        combined_prompt == CombinedPrompt(r.prompts)
        art == generate_comic_art(combined_prompt, None, None, TRUE, out)
        args == <<GenArgs(combined_prompt, None, None, TRUE)>>
        used == IF art.calls # <<>> THEN out ELSE NoSynth
        ded == deduct_credits(credits[user], PanelCredits, faults)
    IN  IF ~has_sufficient_credits(credits[user], PanelCredits, faults)
        THEN Outcome(HTTPException(500, "Error generating thumbnail: 402: Insufficient credits"),
                     <<"has_sufficient_credits", "respond">>, <<>>, <<>>, NoSynth, credits)
        ELSE IF art.raised
        THEN Outcome(HTTPException(500, "Error generating thumbnail: " \o art.error),
                     <<"has_sufficient_credits", "compose">> \o ArtTrace(art) \o <<"respond">>,
                     args, art.calls, used, Charged(user, ded, TRUE))
        ELSE Outcome(AfterDeduction(Success(image_to_base64(EnsureThumbnailSize(art.image))), ded),
                     <<"has_sufficient_credits", "compose">> \o ArtTrace(art)
                        \o <<"resize", "image_to_base64", "deduct_credits", "respond">>,
                     args, art.calls, used, Charged(user, ded, FALSE))

GenerateThumbnail ==
    /\ phase = "idle"
    /\ \E user \in Users, prompts \in PromptLists, faults \in FaultSets(CreditCalls), out \in SynthOutcomes :
        LET r == [NoRequest EXCEPT !.endpoint = "generate-thumbnail", !.user = user,
                                   !.prompts = prompts]
        IN  Handle(r, ThumbnailOutcome(r, faults, out))

(***************************************************************************)
(* The database and the object storage the regeneration endpoint reads and *)
(* writes.  A stored image is named by the URL it is served under.         *)
(***************************************************************************)
NullStr == "<NULL>"                               \* a NULL column, a missing key: None
TruthyStr(str) == str \notin {NullStr, ""}
Format(str) == IF str = NullStr THEN "None" ELSE str     \* f"{str}"

PublicUrl(path) == "https://storage/PixelPanel/" \o path
Url(path) == [enc |-> "url", img |-> PublicUrl(path)]     \* an image_data that starts with http

NoPanel == [exists |-> FALSE, comic_id |-> "", panel_number |-> 0, public_url |-> "",
            prompt |-> NullStr]
PanelRow(comic_id, panel_number, path, prompt) ==
    [exists |-> TRUE, comic_id |-> comic_id, panel_number |-> panel_number,
     public_url |-> PublicUrl(path), prompt |-> prompt]

\* a comic of u1 saved with a cover (panel 0) and one panel
InitialComics == [c \in {"c1"} |-> [user_id |-> "u1"]]
InitialPanels ==
    [p \in {"p0", "p1"} |->
        IF p = "p0" THEN PanelRow("c1", 0, "users/u1/comics/c1/panel_0.png", "sunrise over the city")
        ELSE PanelRow("c1", 1, "users/u1/comics/c1/panel_1.png", NullStr)]
InitialFiles == {"users/u1/comics/c1/panel_0.png", "users/u1/comics/c1/panel_1.png"}

RequestPanelIds == {"p0", "p1", "p9"}
RegenTextPrompts == {NullStr, "", " ", "a dragon appears"}
RegenContexts ==
    {NoContext}
    \cup [present : {TRUE}, prompt : {NullStr, "a hero stands on a hill"},
          image_data : {None, BadPadding, B64("P"), Url("users/u1/comics/c1/panel_0.png")}]
RandomHex == {"9f3a1c07"}
RegenCalls == {"has_sufficient_credits", "deduct_credits", "fetch", "upload", "update"}
RegenCheckCredits == 10
RegenDeductCredits == 1

\* httpx GET of a URL and base64 of the body; raises on a fault or a missing file
Fetch(url, faults) ==
    IF "fetch" \notin faults /\ \E f \in files : PublicUrl(f) = url
    THEN [ok |-> TRUE, data |-> B64(url)]
    ELSE [ok |-> FALSE, data |-> None]

\* the row of comic_panels with this comic_id and panel_number
PanelByNumber(comic_id, panel_number) ==
    {p \in DOMAIN panels : /\ panels[p].exists
                           /\ panels[p].comic_id = comic_id
                           /\ panels[p].panel_number = panel_number}

\* the context the client sent: its prompt and its image, fetched when it is a URL
ProvidedContext(r, faults) ==
    LET raw == r.previous_panel_context.image_data
    IN  [context_image_data |-> IF raw.enc = "url" THEN Fetch(raw.img, faults).data ELSE raw,
         text_prompt |-> ContextPrompt(Format(r.previous_panel_context.prompt), r.text_prompt)]

\* the context inferred from the previous panel of the comic
InferredContext(r, row, faults) ==
    LET prev_number == IF row.panel_number = 1 THEN 0 ELSE row.panel_number - 1
        found == PanelByNumber(row.comic_id, prev_number)
        prev == panels[CHOOSE p \in found : TRUE]
        got == Fetch(prev.public_url, faults)
    IN  IF found = {} THEN [context_image_data |-> None, text_prompt |-> r.text_prompt]
        ELSE IF TruthyStr(prev.public_url) /\ ~got.ok
        THEN [context_image_data |-> None, text_prompt |-> r.text_prompt]
        ELSE [context_image_data |-> IF TruthyStr(prev.public_url) THEN got.data ELSE None,
              text_prompt |-> IF TruthyStr(prev.prompt)
                              THEN ContextPrompt(prev.prompt, r.text_prompt)
                              ELSE r.text_prompt]

RegeneratedPath(user_id, comic_id, panel_number, hex) ==
    "users/" \o user_id \o "/comics/" \o comic_id \o "/panels/panel_"
        \o ToString(panel_number) \o "_regenerated_" \o hex \o ".png"

(***************************************************************************)
(* POST /api/comics/panels/{panel_id}/regenerate                           *)
(***************************************************************************)
RegenerateOutcome(r, faults, out, hex) ==
    LET user_id == r.user
        row == IF r.panel_id \in DOMAIN panels THEN panels[r.panel_id] ELSE NoPanel
        owned == row.comic_id \in DOMAIN comics /\ comics[row.comic_id].user_id = user_id
        ctx == IF r.previous_panel_context.present THEN ProvidedContext(r, faults)
               ELSE InferredContext(r, row, faults)
        art == generate_comic_art(ctx.text_prompt, None, ctx.context_image_data, FALSE, out)
        args == <<GenArgs(ctx.text_prompt, None, ctx.context_image_data, FALSE)>>
        used == IF art.calls # <<>> THEN out ELSE NoSynth
        file_path == RegeneratedPath(user_id, row.comic_id, row.panel_number, hex)
        public_url == PublicUrl(file_path)
        ded == deduct_credits(credits[user_id], RegenDeductCredits, faults)
        sofar == <<"has_sufficient_credits", "panel_check", "comic_check", "compose">>
                    \o ArtTrace(art)
        none == Outcome(NoResponse, <<>>, <<>>, <<>>, NoSynth, credits)
    IN  IF ~TruthyStr(r.text_prompt)
        THEN [none EXCEPT !.resp = HTTPException(422, "Missing required field: text_prompt"),
                          !.trace = <<"respond">>]
        ELSE IF ~has_sufficient_credits(credits[user_id], RegenCheckCredits, faults)
        THEN [none EXCEPT !.resp = HTTPException(402, "Insufficient credits"),
                          !.trace = <<"has_sufficient_credits", "respond">>]
        ELSE IF ~row.exists
        THEN [none EXCEPT !.resp = HTTPException(404, "Panel not found"),
                          !.trace = <<"has_sufficient_credits", "panel_check", "respond">>]
        ELSE IF ~owned
        THEN [none EXCEPT !.resp = HTTPException(403, "You don't have permission to edit this panel"),
                          !.trace = <<"has_sufficient_credits", "panel_check", "comic_check",
                                      "respond">>]
        ELSE IF art.raised
        THEN Outcome(HTTPException(500, art.error), sofar \o <<"respond">>,
                     args, art.calls, used, credits)
        ELSE IF "upload" \in faults
        THEN Outcome(HTTPException(500, "Failed to upload image"),
                     sofar \o <<"image_to_base64", "upload", "respond">>,
                     args, art.calls, used, credits)
        ELSE IF "update" \in faults
        THEN [Outcome(HTTPException(500, "Failed to upload image: 500: Failed to update panel"),
                      sofar \o <<"image_to_base64", "upload", "update", "respond">>,
                      args, art.calls, used, credits)
                EXCEPT !.files = files \cup {file_path}, !.uploads = uploads + 1]
        ELSE [Outcome(AfterDeduction([Success(NoData) EXCEPT !.public_url = public_url], ded),
                      sofar \o <<"image_to_base64", "upload", "update", "deduct_credits",
                                 "respond">>,
                      args, art.calls, used, Charged(user_id, ded, FALSE))
                EXCEPT !.files = files \cup {file_path}, !.uploads = uploads + 1,
                       !.panels = [panels EXCEPT ![r.panel_id].public_url = public_url,
                                                 ![r.panel_id].prompt = ctx.text_prompt]]

RegeneratePanelImage ==
    /\ phase = "idle"
    /\ uploads < MaxUploads
    /\ \E user \in Users, panel_id \in RequestPanelIds, text_prompt \in RegenTextPrompts,
          ctx \in RegenContexts, faults \in FaultSets(RegenCalls), out \in SynthOutcomes,
          hex \in RandomHex :
        LET r == [NoRequest EXCEPT !.endpoint = "regenerate", !.user = user,
                                   !.panel_id = panel_id, !.text_prompt = text_prompt,
                                   !.previous_panel_context = ctx]
        IN  Handle(r, RegenerateOutcome(r, faults, out, hex))

(***************************************************************************)
(* POST /api/voice-over/generate-voiceover                                 *)
(* speed is given in tenths: 7 is 0.7, 12 is 1.2.                          *)
(***************************************************************************)
NarrationTexts == {"", " ", "Once upon a time"}
Speeds == {6, 10, 13}
AudioOutcomes == {"audio", "http_error"}
NarrationCredits == 1
MinSpeed == 7
MaxSpeed == 12

\* not text or not text.strip()
Blank(text) == text \in {"", " "}

\* AudioGenerator.generate_audio_base64: ValueError on blank text, the transport's error
\* re-raised, else the base64 of the audio
generate_audio_base64(text, out) ==
    IF Blank(text) THEN [raised |-> TRUE, kind |-> "ValueError", data |-> "Text cannot be empty"]
    ELSE IF out = "http_error" THEN [raised |-> TRUE, kind |-> "HTTPStatusError", data |-> "HTTP error"]
    ELSE [raised |-> FALSE, kind |-> "", data |-> "base64(mp3(" \o text \o "))"]

AudioResponse(audio_data) == [NoResponse EXCEPT !.status = 200, !.audio = audio_data]

NarrationOutcome(r, faults, out) ==
    LET user == r.user
        audio == generate_audio_base64(r.narration, out)
        ded == deduct_credits(credits[user], NarrationCredits, faults)
        none == Outcome(NoResponse, <<>>, <<>>, <<>>, NoSynth, credits)
    IN  IF Blank(r.narration)
        THEN [none EXCEPT !.resp = HTTPException(400, "Narration text cannot be empty"),
                          !.trace = <<"respond">>]
        ELSE IF r.speed < MinSpeed \/ r.speed > MaxSpeed
        THEN [none EXCEPT !.resp = HTTPException(400, "Speed must be between 0.7 and 1.2"),
                          !.trace = <<"respond">>]
        ELSE IF ~has_sufficient_credits(credits[user], NarrationCredits, faults)
        THEN [none EXCEPT !.resp = HTTPException(402, "Insufficient credits"),
                          !.trace = <<"has_sufficient_credits", "respond">>]
        ELSE IF audio.raised /\ audio.kind = "ValueError"
        THEN [none EXCEPT !.resp = HTTPException(400, audio.data),
                          !.trace = <<"has_sufficient_credits", "generate_audio", "respond">>]
        ELSE IF audio.raised
        THEN [none EXCEPT !.resp = HTTPException(500, "Failed to generate voiceover: " \o audio.data),
                          !.trace = <<"has_sufficient_credits", "generate_audio", "respond">>]
        ELSE [none EXCEPT !.resp = AfterDeduction(AudioResponse(audio.data), ded),
                          !.trace = <<"has_sufficient_credits", "generate_audio",
                                      "deduct_credits", "respond">>,
                          !.credits = Charged(user, ded, FALSE),
                          !.narrations = narrations + 1]

GenerateNarration ==
    /\ phase = "idle"
    /\ narrations < MaxNarrations
    /\ \E user \in Users, narration \in NarrationTexts, speed \in Speeds,
          faults \in FaultSets(CreditCalls), out \in AudioOutcomes :
        LET r == [NoRequest EXCEPT !.endpoint = "generate-voiceover", !.user = user,
                                   !.narration = narration, !.speed = speed]
        IN  Handle(r, NarrationOutcome(r, faults, out))

(***************************************************************************)
(* get_current_user (auth_shared.py).  A header text is a sequence of      *)
(* pieces: the words "Bearer" and "bearer", a space, a dot, and "x" for    *)
(* any other run of characters.                                            *)
(***************************************************************************)
NoHeader == [present |-> FALSE, text |-> <<>>]              \* headers.get(...) is None
Header(text) == [present |-> TRUE, text |-> text]
Schemes == {<<>>, <<"Bearer">>, <<"Bearer", " ">>, <<"bearer", " ">>}
TokenPieces == {" ", ".", "x"}
TokenTexts == UNION {[1..n -> TokenPieces] : n \in 0..MaxTokenLen}
Headers == {NoHeader} \cup {Header(s \o t) : s \in Schemes, t \in TokenTexts}

\* the answers of GET {supabase_url}/auth/v1/user
NoAnswer == [status |-> 0, body |-> ""]
TransportError == [status |-> 0, body |-> "httpx.HTTPError"]
AuthAnswers ==
    {TransportError, [status |-> 200, body |-> "u1"], [status |-> 200, body |-> "not json"],
     [status |-> 401, body |-> ""], [status |-> 500, body |-> ""]}

NoAuthCall == [header |-> NoHeader, answer |-> NoAnswer]
NoAuthResult ==
    [done |-> FALSE, raised |-> FALSE, status |-> 0, detail |-> "", user |-> "", requests |-> 0]
AuthCalls == [header : Headers, answer : AuthAnswers]

\* text.split(sep)
RECURSIVE Split(_, _)
Split(text, sep) ==
    IF text = <<>> THEN << <<>> >>
    ELSE LET rest == Split(Tail(text), sep)
         IN  IF Head(text) = sep THEN << <<>> >> \o rest
             ELSE << <<Head(text)>> \o Head(rest) >> \o Tail(rest)

\* auth_header.startswith("Bearer ")
StartsWithBearer(text) == Len(text) >= 2 /\ text[1] = "Bearer" /\ text[2] = " "

\* mutant: a token of more than three parts passes
TokenStructureAtLeast(token) == Len(Split(token, ".")) >= 3

\* len(token.split('.')) == 3
TokenStructure(token) == Len(Split(token, ".")) = 3

AuthRaise(detail, requests) ==
    [done |-> TRUE, raised |-> TRUE, status |-> 401, detail |-> detail, user |-> "",
     requests |-> requests]
AuthReturn(user) ==
    [done |-> TRUE, raised |-> FALSE, status |-> 0, detail |-> "", user |-> user,
     requests |-> 1]

get_current_user(call) ==
    LET auth_header == call.header
        token == Split(auth_header.text, " ")[2]
    IN  IF ~auth_header.present \/ auth_header.text = <<>> \/ ~StartsWithBearer(auth_header.text)
        THEN AuthRaise("Missing or invalid authorization header", 0)
        ELSE IF ~TokenStructure(token)
        THEN AuthRaise("Invalid token format", 0)
        ELSE IF call.answer = TransportError
        THEN AuthRaise("Token verification failed", 1)
        ELSE IF call.answer.status # 200
        THEN AuthRaise("Invalid or expired token", 1)
        ELSE IF call.answer.body = "not json"
        THEN AuthRaise("Token verification failed", 1)
        ELSE AuthReturn(call.answer.body)

GetCurrentUser ==
    /\ ~auth_result.done
    /\ auth_result' = get_current_user(auth_call)
    /\ UNCHANGED <<svars, bvars, narrations, memo, auth_call, yvars, wvars, edits>>

(***************************************************************************)
(* generate_story (api/voice_over.py).  A text is a sequence of pieces:    *)
(* the opening fence (three backticks and json), the closing fence, a     *)
(* newline, a complete JSON value, and prose that is no JSON.  json.dumps  *)
(* yields one JSON value holding its argument.                             *)
(***************************************************************************)
Piece(kind) == [k |-> kind, of |-> <<>>, error |-> FALSE]
FenceJson == Piece("fence_json")        \* three backticks and json
Fence == Piece("fence")                 \* three backticks
Newline == Piece("newline")
JsonValue == Piece("value")
Prose == Piece("prose")
StoryPieces == {FenceJson, Fence, Newline, JsonValue, Prose}
StoryTexts == UNION {[1..n -> StoryPieces] : n \in 0..MaxStoryLen}
Stories == {"Cat playing with yarn"}

\* what model.generate_content(prompt) does: raises, or answers with response.text
AnswerRaises == [kind |-> "raises", text |-> <<>>]
AnswerNoText == [kind |-> "none", text |-> <<>>]                 \* response.text is None
AnswerText(text) == [kind |-> "text", text |-> text]
StoryAnswers == {AnswerRaises, AnswerNoText} \cup {AnswerText(t) : t \in StoryTexts}

NoStoryCall == [story |-> "", answer |-> AnswerNoText]
NoStoryResult == [done |-> FALSE, raised |-> FALSE, text |-> <<>>]
StoryCalls == [story : Stories, answer : StoryAnswers]

\* text.replace(piece, "")
Remove(text, piece) == SelectSeq(text, LAMBDA p : p # piece)

\* text.strip()
RECURSIVE LStrip(_)
LStrip(text) == IF text # <<>> /\ Head(text) = Newline THEN LStrip(Tail(text)) ELSE text
RECURSIVE RStrip(_)
RStrip(text) ==
    IF text # <<>> /\ text[Len(text)] = Newline THEN RStrip(SubSeq(text, 1, Len(text) - 1))
    ELSE text
Strip(text) == RStrip(LStrip(text))

\* json.loads(text) does not raise: one JSON value, whitespace around it allowed
json_loads(text) == Len(Strip(text)) = 1 /\ Strip(text)[1].k = "value"

\* json.dumps({"story": content}); with_error: the fallback object, which has an "error" key
json_dumps(content, with_error) == <<[k |-> "value", of |-> content, error |-> with_error]>>

\* mutant: text that is no JSON is returned as it is
WrapStoryRaw(story_content) == story_content

\* except json.JSONDecodeError: return json.dumps({"story": story_content})
WrapStory(story_content) == json_dumps(story_content, FALSE)

StoryReturn(text) == [done |-> TRUE, raised |-> FALSE, text |-> text]

generate_story(call) ==
    LET raw == call.answer.text
        story_content ==
            IF raw # <<>> /\ Head(raw) = FenceJson
            THEN Strip(Remove(Remove(raw, FenceJson), Fence))
            ELSE raw
    IN  IF call.answer.kind \in {"raises", "none"}
        THEN StoryReturn(json_dumps(<<Prose>>, TRUE))
        ELSE IF json_loads(story_content) THEN StoryReturn(story_content)
        ELSE StoryReturn(WrapStory(story_content))

GenerateStory ==
    /\ ~story_result.done
    /\ story_result' = generate_story(story_call)
    /\ UNCHANGED <<svars, bvars, narrations, memo, avars, story_call, wvars, edits>>

(***************************************************************************)
(* The Stripe webhooks: POST /api/stripe/webhook (api/stripe.py) and       *)
(* POST /stripe/webhook (api/stripe_webhook.py).  What the Stripe library  *)
(* answers (construct_event, Price.retrieve, Customer.retrieve) comes with *)
(* the call.  Amounts are in cents.                                        *)
(***************************************************************************)
NoProfile ==
    [exists |-> FALSE, stripe_customer_id |-> NullStr, stripe_subscription_id |-> NullStr,
     status |-> NullStr, plan_type |-> NullStr]
NewUser == "u3"                                   \* the id the auth service gives a created user
InitialProfiles ==
    [u \in Users \cup {NewUser} |->
        IF u = "u1"
        THEN [exists |-> TRUE, stripe_customer_id |-> "cus_1", stripe_subscription_id |-> "sub_1",
              status |-> "active", plan_type |-> "starter"]
        ELSE IF u = "u2" THEN [NoProfile EXCEPT !.exists = TRUE]
        ELSE NoProfile]

Routes == {"/api/stripe/webhook", "/stripe/webhook"}
Verifications == {"event", "ValueError", "SignatureVerificationError"}
NoHookCall ==
    [route |-> "", verified |-> "", type |-> "", customer |-> NullStr, email |-> NullStr,
     amount |-> 0, subscription |-> NullStr, status |-> NullStr, user_id |-> NullStr,
     package_id |-> NullStr, has_items |-> FALSE]
NoHookResult == [done |-> FALSE, status |-> 0, detail |-> ""]
HookResult(status_code, detail) == [done |-> TRUE, status |-> status_code, detail |-> detail]

Customers == {NullStr, "cus_1", "cus_9"}
Amounts == {499, 999}
HookEvents ==
    [type : {"payment_intent.succeeded"}, user_id : {NullStr, "u2"},
     package_id : {"credits_500"}]
    \cup [type : {"checkout.session.completed"}, customer : Customers,
          email : {NullStr, "new@example.com"}, amount : Amounts,
          user_id : {NullStr, "u2"}, package_id : {"credits_50", "credits_500"}]
    \cup [type : {"customer.subscription.created"}, customer : Customers,
          email : {NullStr, "new@example.com"}, amount : Amounts, subscription : {"sub_2"},
          status : {"active"}, has_items : BOOLEAN]
    \cup [type : {"customer.subscription.updated"}, subscription : {"sub_1", "sub_2"},
          status : {"active", "past_due"}, amount : Amounts, has_items : BOOLEAN]
    \cup [type : {"customer.subscription.deleted"}, subscription : {"sub_1", "sub_2"}]
    \cup [type : {"invoice.payment_succeeded"}, customer : Customers,
          subscription : {NullStr, "sub_1"}, amount : Amounts]
    \cup [type : {"charge.refunded"}]

\* the call as the handler sees it: the fields an event does not carry are absent
HookCall(route, verified, event) ==
    [f \in DOMAIN NoHookCall |->
        IF f = "route" THEN route
        ELSE IF f = "verified" THEN verified
        ELSE IF f \in DOMAIN event THEN event[f]
        ELSE NoHookCall[f]]

HookCalls == {HookCall(r, v, ev) : r \in Routes, v \in Verifications, ev \in HookEvents}
HookFaults == {"add_credits", "update_profile", "create_user"}

\* the stored procedure add_user_credits of the database
RpcAddUserCredits(balance, credits_to_add) == balance + credits_to_add

\* UserCreditsService.add_credits: re-raises any exception of the remote call
add_credits(balances, user_id, credits_to_add, faults) ==
    IF "add_credits" \in faults \/ user_id \notin DOMAIN balances
    THEN [raised |-> TRUE, balances |-> balances]
    ELSE [raised |-> FALSE,
          balances |-> [balances EXCEPT ![user_id] = RpcAddUserCredits(@, credits_to_add)]]

\* amount_to_credits.get(amount, 500)
AmountToCredits(amount) ==
    IF amount = 499 THEN 500
    ELSE IF amount = 999 THEN 1200
    ELSE IF amount = 1999 THEN 2800
    ELSE IF amount = 4999 THEN 8000
    ELSE 500

PlanType(plan_credits) ==
    IF plan_credits = 500 THEN "starter"
    ELSE IF plan_credits = 1200 THEN "pro"
    ELSE IF plan_credits = 2800 THEN "creator"
    ELSE "contentMachine"

\* credit_map.get(package_id, 0) of api/stripe_webhook.py
CreditMap(package_id) ==
    IF package_id = "credits_50" THEN 50
    ELSE IF package_id = "credits_120" THEN 120
    ELSE IF package_id = "credits_280" THEN 280
    ELSE IF package_id = "credits_800" THEN 800
    ELSE 0

\* CREDIT_PACKAGES[packageId]["credits"], which create_payment_intent put in the metadata
PackageCredits(package_id) ==
    IF package_id = "credits_500" THEN 500
    ELSE IF package_id = "credits_1200" THEN 1200
    ELSE IF package_id = "credits_2800" THEN 2800
    ELSE 8000

\* find_user_by_customer_id: the user_id of the first profile with this customer id, or None
find_user_by_customer_id(rows, customer_id) ==
    LET found == {u \in DOMAIN rows : /\ rows[u].exists
                                      /\ TruthyStr(customer_id)
                                      /\ rows[u].stripe_customer_id = customer_id}
    IN  IF found = {} THEN NullStr ELSE CHOOSE u \in found : TRUE

\* what a handler leaves behind
HookState(balances, rows) == [credits |-> balances, profiles |-> rows]

\* create_user_for_customer: a new auth user and its profile with 0 credits, or None
create_user_for_customer(st, customer_id, faults) ==
    IF "create_user" \in faults \/ st.profiles[NewUser].exists
    THEN [user_id |-> NullStr, st |-> st]
    ELSE [user_id |-> NewUser,
          st |-> HookState([u \in DOMAIN st.credits \cup {NewUser} |->
                                IF u = NewUser THEN 0 ELSE st.credits[u]],
                           [st.profiles EXCEPT ![NewUser] =
                                [NoProfile EXCEPT !.exists = TRUE,
                                                  !.stripe_customer_id = customer_id]])]

\* supabase.table('user_profiles').update(...).eq('stripe_subscription_id', subscription_id)
UpdateBySubscription(rows, subscription_id, field, value, faults) ==
    IF "update_profile" \in faults THEN rows
    ELSE [u \in DOMAIN rows |->
            IF rows[u].exists /\ TruthyStr(subscription_id)
                /\ rows[u].stripe_subscription_id = subscription_id
            THEN [rows[u] EXCEPT ![field] = value]
            ELSE rows[u]]

\* the user found by customer id, created when there is none and an e-mail is known
FindOrCreate(st, call, faults) ==
    LET found == find_user_by_customer_id(st.profiles, call.customer)
    IN  IF TruthyStr(found) THEN [user_id |-> found, st |-> st]
        ELSE IF TruthyStr(call.email) /\ TruthyStr(call.customer)
        THEN create_user_for_customer(st, call.customer, faults)
        ELSE [user_id |-> NullStr, st |-> st]

\* event type payment_intent.succeeded of /api/stripe/webhook
PaymentIntentSucceeded(st, call, faults) ==
    IF ~TruthyStr(call.user_id)
    THEN [raised |-> TRUE, st |-> st]                          \* KeyError: no metadata
    ELSE [raised |-> FALSE,
          st |-> [st EXCEPT !.credits =
                    add_credits(st.credits, call.user_id, PackageCredits(call.package_id),
                                faults).balances]]

\* event type checkout.session.completed of /api/stripe/webhook
CheckoutCompleted(st, call, faults) ==
    LET who == FindOrCreate(st, call, faults)
    IN  IF TruthyStr(who.user_id)
        THEN [who.st EXCEPT !.credits =
                add_credits(who.st.credits, who.user_id, AmountToCredits(call.amount),
                            faults).balances]
        ELSE who.st

handle_subscription_created(st, call, faults) ==
    LET who == FindOrCreate(st, call, faults)
        plan_credits == AmountToCredits(call.amount)
        added == add_credits(who.st.credits, who.user_id, plan_credits, faults)
    IN  IF ~TruthyStr(who.user_id) \/ ~call.has_items THEN who.st
        ELSE IF added.raised THEN who.st
        ELSE HookState(added.balances,
                       IF "update_profile" \in faults THEN who.st.profiles
                       ELSE [who.st.profiles EXCEPT ![who.user_id] =
                                [@ EXCEPT !.stripe_subscription_id = call.subscription,
                                          !.stripe_customer_id = call.customer,
                                          !.plan_type = PlanType(plan_credits),
                                          !.status = call.status]])

\* mutant: a plan change grants the credits of the new plan
handle_subscription_updated_grants(st, call, faults) ==
    [st EXCEPT !.credits =
        [u \in DOMAIN st.credits |->
            IF st.profiles[u].stripe_subscription_id = call.subscription
            THEN st.credits[u] + AmountToCredits(call.amount)
            ELSE st.credits[u]]]

handle_subscription_updated(st, call, faults) ==
    LET rows == UpdateBySubscription(st.profiles, call.subscription, "status", call.status, faults)
    IN  IF call.status = "active" /\ call.has_items
        THEN [st EXCEPT !.profiles =
                UpdateBySubscription(rows, call.subscription, "plan_type",
                                     PlanType(AmountToCredits(call.amount)), faults)]
        ELSE [st EXCEPT !.profiles = rows]

handle_subscription_deleted(st, call, faults) ==
    [st EXCEPT !.profiles =
        UpdateBySubscription(st.profiles, call.subscription, "status", "cancelled", faults)]

\* handle_credit_rollover adds the plan's credits, and tries once more when that raised
handle_invoice_payment_succeeded(st, call, faults) ==
    LET user_id == find_user_by_customer_id(st.profiles, call.customer)
    IN  IF TruthyStr(user_id) /\ TruthyStr(call.subscription)
        THEN [st EXCEPT !.credits =
                add_credits(st.credits, user_id, AmountToCredits(call.amount), faults).balances]
        ELSE st

\* handle_successful_payment of api/stripe_webhook.py
handle_successful_payment(st, call, faults) ==
    LET credits_to_add == CreditMap(call.package_id)
        added == add_credits(st.credits, call.user_id, credits_to_add, faults)
    IN  IF ~TruthyStr(call.user_id) \/ ~TruthyStr(call.package_id) \/ credits_to_add <= 0
        THEN [raised |-> FALSE, st |-> st]
        ELSE [raised |-> added.raised, st |-> [st EXCEPT !.credits = added.balances]]

\* mutant: the event is handled whatever construct_event said
VerifiedAnyway(call) == TRUE

\* stripe.Webhook.construct_event(payload, sig_header, secret) returned an event
Verified(call) == call.verified = "event"

HookOutcome(result, st) == [result |-> result, st |-> st]

\* POST /api/stripe/webhook
stripe_webhook(call, faults) ==
    LET st == HookState(credits, profiles)
        paid == PaymentIntentSucceeded(st, call, faults)
        success == HookResult(200, "success")
    IN  IF ~Verified(call)
        THEN HookOutcome(HookResult(400, IF call.verified = "ValueError" THEN "Invalid payload"
                                         ELSE "Invalid signature"), st)
        ELSE IF call.type = "payment_intent.succeeded"
        THEN IF paid.raised THEN HookOutcome(HookResult(500, "Internal Server Error"), st)
             ELSE HookOutcome(success, paid.st)
        ELSE IF call.type = "checkout.session.completed"
        THEN HookOutcome(success, CheckoutCompleted(st, call, faults))
        ELSE IF call.type = "customer.subscription.created"
        THEN HookOutcome(success, handle_subscription_created(st, call, faults))
        ELSE IF call.type = "customer.subscription.updated"
        THEN HookOutcome(success, handle_subscription_updated(st, call, faults))
        ELSE IF call.type = "customer.subscription.deleted"
        THEN HookOutcome(success, handle_subscription_deleted(st, call, faults))
        ELSE IF call.type = "invoice.payment_succeeded"
        THEN HookOutcome(success, handle_invoice_payment_succeeded(st, call, faults))
        ELSE HookOutcome(success, st)

\* POST /stripe/webhook: only checkout.session.completed changes anything
stripe_webhook_standalone(call, faults) ==
    LET st == HookState(credits, profiles)
        paid == handle_successful_payment(st, call, faults)
    IN  IF ~Verified(call)
        THEN HookOutcome(HookResult(400, IF call.verified = "ValueError" THEN "Invalid payload"
                                         ELSE "Invalid signature"), st)
        ELSE IF call.type = "checkout.session.completed"
        THEN IF paid.raised THEN HookOutcome(HookResult(500, "Internal Server Error"), st)
             ELSE HookOutcome(HookResult(200, "success"), paid.st)
        ELSE HookOutcome(HookResult(200, "success"), st)

HandleHook(call, o) ==
    /\ hook_call' = call
    /\ hook_result' = o.result
    /\ credits' = o.st.credits
    /\ profiles' = o.st.profiles
    /\ hooks' = hooks + 1
    /\ UNCHANGED <<dbvars, phase, req, resp, trace, genargs, sent, synth, bvars, narrations,
                   memo, avars, yvars, edits>>

StripeWebhook ==
    /\ hooks < MaxHooks
    /\ \E call \in {c \in HookCalls : c.route = "/api/stripe/webhook"},
          faults \in FaultSets(HookFaults) :
        HandleHook(call, stripe_webhook(call, faults))

StripeWebhookStandalone ==
    /\ hooks < MaxHooks
    /\ \E call \in {c \in HookCalls : c.route = "/stripe/webhook"},
          faults \in FaultSets(HookFaults) :
        HandleHook(call, stripe_webhook_standalone(call, faults))


(***************************************************************************)
(* The comic library: save-comic, update_panel, update_comic_visibility    *)
(* and delete_comic (api/comics.py, services/comic_storage.py).            *)
(***************************************************************************)
ComicRow(user_id, title, is_public) ==
    [user_id |-> user_id, title |-> title, is_public |-> is_public]

\* a row of comic_panels as save_comic inserts it: no prompt column is written
SavedPanel(comic_id, panel_number, path, narration) ==
    [exists |-> TRUE, comic_id |-> comic_id, panel_number |-> panel_number,
     public_url |-> PublicUrl(path), prompt |-> NullStr, storage_path |-> path,
     narration |-> narration, audio_url |-> NullStr]

PanelPath(user_id, comic_id, panel_id) ==
    "users/" \o user_id \o "/comics/" \o comic_id \o "/panel_" \o ToString(panel_id) \o ".png"
AudioPath(user_id, comic_id, panel_number) ==
    "users/" \o user_id \o "/comics/" \o comic_id \o "/audio/panel_"
        \o ToString(panel_number) \o ".mp3"
ThumbnailPath(user_id, comic_id) == "users/" \o user_id \o "/comics/" \o comic_id \o "/thumbnail.png"

\* the library at the start, both comics private: u1's comic c1 is complete; u2's
\* comic c2 was saved with a blank title ("untitled"), or without a narration
\* ("unnarrated"), or with an image that gave no cover ("uncovered")
Libraries == {"untitled", "unnarrated", "uncovered"}
LibraryComics(v) ==
    [c \in {"c1", "c2"} |->
        IF c = "c1" THEN ComicRow("u1", "Dragon", FALSE)
        ELSE ComicRow("u2", IF v = "untitled" THEN " " ELSE "Owl", FALSE)]
LibraryPanels(v) ==
    [p \in {"p0", "p1", "q1"} \cup (IF v = "uncovered" THEN {} ELSE {"q0"}) |->
        IF p = "p0" THEN SavedPanel("c1", 0, ThumbnailPath("u1", "c1"), NullStr)
        ELSE IF p = "p1" THEN SavedPanel("c1", 1, PanelPath("u1", "c1", 1), "Once upon a time")
        ELSE IF p = "q0" THEN SavedPanel("c2", 0, ThumbnailPath("u2", "c2"), NullStr)
        ELSE SavedPanel("c2", 1, PanelPath("u2", "c2", 1),
                        IF v = "unnarrated" THEN NullStr ELSE "Once upon a time")]
LibraryFiles(v) == {LibraryPanels(v)[p].storage_path : p \in DOMAIN LibraryPanels(v)}

FreshComicIds == {"c3", "c4"}
NewComicId == CHOOSE c \in FreshComicIds : c \notin DOMAIN comics
PanelId(comic_id, panel_number) == comic_id \o "_" \o ToString(panel_number)

LibraryComicIds == {"c1", "c2", "c3", "c9"}
LibraryPanelIds == {"p0", "p1", "q1", "p9"}
Titles == {NullStr, " ", "Owl"}
PanelNarrations == {NullStr, "", "Once upon a time"}
PanelPrompts == {NullStr, "a new prompt"}

\* PanelData of a save-comic request; audio_data is absent
PanelData(id, image_data, narration) ==
    [id |-> id, image_data |-> image_data, narration |-> narration]
PanelPayloads ==
    {<<>>}
    \cup {<<PanelData(1, i, n)>> : i \in {None, BadPadding, NotAnImage, B64("A")},
                                   n \in {NullStr, "Once upon a time"}}
ThumbnailPayloads == {None, B64("T")}

Extend(f, k, v) == [x \in DOMAIN f \cup {k} |-> IF x = k THEN v ELSE f[x]]
Without(f, ks) == [x \in DOMAIN f \ ks |-> f[x]]

LibOutcome(response, steps, rows, prows, stored, balances) ==
    [resp |-> response, trace |-> steps, comics |-> rows, panels |-> prows,
     files |-> stored, credits |-> balances]

\* the loop of save_comic over panels_data: a panel without image_data is skipped,
\* an image_data that does not decode raises
RECURSIVE SavePanels(_, _, _, _)
SavePanels(user_id, comic_id, panels_data, st) ==
    IF panels_data = <<>> \/ st.raised THEN st
    ELSE LET panel_data == Head(panels_data)
             image_data == panel_data.image_data
             storage_path == PanelPath(user_id, comic_id, panel_data.id)
             row == SavedPanel(comic_id, panel_data.id, storage_path, panel_data.narration)
         IN  IF ~Truthy(image_data) THEN SavePanels(user_id, comic_id, Tail(panels_data), st)
             ELSE IF ~b64decode(image_data).ok THEN [st EXCEPT !.raised = TRUE]
             ELSE SavePanels(user_id, comic_id, Tail(panels_data),
                     [st EXCEPT !.files = @ \cup {storage_path},
                                !.panels = Extend(@, PanelId(comic_id, panel_data.id), row),
                                !.images = @ + (IF ImageOpen(b64decode(image_data).bytes).ok
                                                THEN 1 ELSE 0)])

\* ComicStorageService.save_comic: the comic row, the panels, then the cover as panel 0
save_comic(user_id, comic_title, panels_data, thumbnail_data, is_public) ==
    LET comic_id == NewComicId
        rows == Extend(comics, comic_id, ComicRow(user_id, comic_title, is_public))
        saved == SavePanels(user_id, comic_id, panels_data,
                            [raised |-> FALSE, panels |-> panels, files |-> files, images |-> 0])
        composite_path == ThumbnailPath(user_id, comic_id)
    IN  IF saved.raised \/ (Truthy(thumbnail_data) /\ ~b64decode(thumbnail_data).ok)
        THEN [raised |-> TRUE, comics |-> rows, panels |-> saved.panels, files |-> saved.files,
              composite_public_url |-> NullStr]
        ELSE IF Truthy(thumbnail_data) \/ saved.images > 0
        THEN [raised |-> FALSE, comics |-> rows,
              panels |-> Extend(saved.panels, PanelId(comic_id, 0),
                                SavedPanel(comic_id, 0, composite_path, NullStr)),
              files |-> saved.files \cup {composite_path},
              composite_public_url |-> PublicUrl(composite_path)]
        ELSE [raised |-> FALSE, comics |-> rows, panels |-> saved.panels, files |-> saved.files,
              composite_public_url |-> NullStr]

\* POST /api/comics/save-comic
SaveComicOutcome(r) ==
    LET saved == save_comic(r.user, r.title, r.panels, r.thumbnail_data, r.is_public)
        none == LibOutcome(NoResponse, <<>>, comics, panels, files, credits)
    IN  IF ~TruthyStr(r.title)
        THEN [none EXCEPT !.resp = HTTPException(422, "Missing required field: title or comic_title"),
                          !.trace = <<"respond">>]
        ELSE IF r.panels = <<>>
        THEN [none EXCEPT !.resp = HTTPException(422, "Missing required field: panels or panels_data"),
                          !.trace = <<"respond">>]
        ELSE IF saved.raised
        THEN LibOutcome(HTTPException(500, "Error saving comic"), <<"save_comic", "respond">>,
                        saved.comics, saved.panels, saved.files, credits)
        ELSE LibOutcome([NoResponse EXCEPT !.status = 200,
                                           !.public_url = saved.composite_public_url],
                        <<"save_comic", "respond">>,
                        saved.comics, saved.panels, saved.files, credits)

HandleLibrary(r, o) ==
    /\ phase' = "done"
    /\ req' = r
    /\ resp' = o.resp
    /\ trace' = o.trace
    /\ comics' = o.comics
    /\ panels' = o.panels
    /\ files' = o.files
    /\ credits' = o.credits
    /\ edits' = edits + 1
    /\ UNCHANGED <<uploads, genargs, sent, synth, bvars, narrations, memo, avars, yvars, wvars>>

SaveComic ==
    /\ phase = "idle"
    /\ edits < MaxEdits
    /\ \E c \in FreshComicIds : c \notin DOMAIN comics
    /\ \E user \in Users, title \in Titles, payload \in PanelPayloads,
          thumbnail_data \in ThumbnailPayloads, is_public \in BOOLEAN :
        LET r == [NoRequest EXCEPT !.endpoint = "save-comic", !.user = user, !.title = title,
                                   !.panels = payload, !.thumbnail_data = thumbnail_data,
                                   !.is_public = is_public]
        IN  HandleLibrary(r, SaveComicOutcome(r))

(***************************************************************************)
(* PATCH /api/comics/panels/{panel_id}                                     *)
(***************************************************************************)
UpdatePanelCalls == {"has_sufficient_credits", "deduct_credits", "upload", "update"}

\* mutant: the comic is looked up by id alone
PanelOwnedAnyone(row, user_id) == row.comic_id \in DOMAIN comics

\* comics.select('id').eq('id', comic_id).eq('user_id', user_id) returns a row
PanelOwned(row, user_id) ==
    row.comic_id \in DOMAIN comics /\ comics[row.comic_id].user_id = user_id

UpdatePanelOutcome(r, faults, out) ==
    LET user_id == r.user
        row == IF r.panel_id \in DOMAIN panels THEN panels[r.panel_id] ELSE NoPanel
        wants_audio == r.regenerate_audio /\ r.narration # NullStr /\ ~Blank(r.narration)
        audio == generate_audio_base64(r.narration, out)
        audio_storage_path == AudioPath(user_id, row.comic_id, row.panel_number)
        made == wants_audio /\ ~audio.raised /\ "upload" \notin faults
        audio_url == IF made THEN PublicUrl(audio_storage_path) ELSE NullStr
        ded == deduct_credits(credits[user_id], NarrationCredits, faults)
        balances == IF made THEN Charged(user_id, ded, FALSE) ELSE credits
        stored == IF made THEN files \cup {audio_storage_path} ELSE files
        updated == [row EXCEPT !.narration = IF r.narration # NullStr THEN r.narration ELSE @,
                               !.prompt = IF r.prompt # NullStr THEN r.prompt ELSE @,
                               !.audio_url = IF made THEN audio_url ELSE @]
        checks == <<"panel_check", "comic_check">>
        steps == checks
                 \o (IF wants_audio THEN <<"has_sufficient_credits", "generate_audio">> ELSE <<>>)
                 \o (IF wants_audio /\ ~audio.raised THEN <<"upload">> ELSE <<>>)
                 \o (IF made THEN <<"deduct_credits">> ELSE <<>>)
                 \o <<"update", "respond">>
        none == LibOutcome(NoResponse, <<>>, comics, panels, files, credits)
    IN  IF r.narration = NullStr /\ r.prompt = NullStr
        THEN [none EXCEPT !.resp = HTTPException(422, "Missing required field: narration or prompt"),
                          !.trace = <<"respond">>]
        ELSE IF ~row.exists
        THEN [none EXCEPT !.resp = HTTPException(404, "Panel not found"),
                          !.trace = <<"panel_check", "respond">>]
        ELSE IF ~PanelOwned(row, user_id)
        THEN [none EXCEPT !.resp = HTTPException(403, "You don't have permission to edit this panel"),
                          !.trace = checks \o <<"respond">>]
        ELSE IF wants_audio /\ ~has_sufficient_credits(credits[user_id], NarrationCredits, faults)
        THEN [none EXCEPT !.resp = HTTPException(402, "Insufficient credits"),
                          !.trace = checks \o <<"has_sufficient_credits", "respond">>]
        ELSE IF "update" \in faults
        THEN LibOutcome(HTTPException(500, "Failed to update panel"), steps,
                        comics, panels, stored, balances)
        ELSE LibOutcome([NoResponse EXCEPT !.status = 200, !.success = TRUE,
                                           !.audio = IF made THEN audio_url ELSE ""],
                        steps, comics, [panels EXCEPT ![r.panel_id] = updated], stored, balances)

UpdatePanel ==
    /\ phase = "idle"
    /\ edits < MaxEdits
    /\ \E user \in Users, panel_id \in LibraryPanelIds, narration \in PanelNarrations,
          prompt \in PanelPrompts, regenerate_audio \in BOOLEAN,
          faults \in FaultSets(UpdatePanelCalls), out \in AudioOutcomes :
        LET r == [NoRequest EXCEPT !.endpoint = "update-panel", !.user = user,
                                   !.panel_id = panel_id, !.narration = narration,
                                   !.prompt = prompt, !.regenerate_audio = regenerate_audio]
        IN  HandleLibrary(r, UpdatePanelOutcome(r, faults, out))

(***************************************************************************)
(* PATCH /api/comics/{comic_id}/visibility                                 *)
(***************************************************************************)
PanelsOf(comic_id, prows) ==
    {p \in DOMAIN prows : prows[p].exists /\ prows[p].comic_id = comic_id}

\* text and text.strip()
NonBlank(text) == TruthyStr(text) /\ ~Blank(text)

has_title(row) == NonBlank(row.title)

\* mutant: the cover (panel 0) needs a narration too
has_narrations_all(comic_id, prows) ==
    \A p \in PanelsOf(comic_id, prows) : NonBlank(prows[p].narration)

has_narrations(comic_id, prows) ==
    \A p \in PanelsOf(comic_id, prows) :
        prows[p].panel_number > 0 => NonBlank(prows[p].narration)
has_thumbnail(comic_id, prows) ==
    \E p \in PanelsOf(comic_id, prows) : prows[p].panel_number = 0

VisibilityCalls == {"update"}

UpdateVisibilityOutcome(r, faults) ==
    LET user_id == r.user
        found == r.comic_id \in DOMAIN comics /\ comics[r.comic_id].user_id = user_id
        none == LibOutcome(NoResponse, <<>>, comics, panels, files, credits)
        refuse(status, detail, steps) ==
            [none EXCEPT !.resp = HTTPException(status, detail), !.trace = steps]
    IN  IF r.is_public /\ ~found
        THEN refuse(404, "Comic not found or unauthorized", <<"select", "respond">>)
        ELSE IF r.is_public /\ ~has_title(comics[r.comic_id])
        THEN refuse(400, "Cannot publish: Comic title is required", <<"select", "respond">>)
        ELSE IF r.is_public /\ ~has_narrations(r.comic_id, panels)
        THEN refuse(400, "Cannot publish: All panels must have narrations", <<"select", "respond">>)
        ELSE IF r.is_public /\ ~has_thumbnail(r.comic_id, panels)
        THEN refuse(400, "Cannot publish: Comic thumbnail is required", <<"select", "respond">>)
        ELSE IF "update" \in faults
        THEN refuse(500, "update failed",
                    (IF r.is_public THEN <<"select">> ELSE <<>>) \o <<"update", "respond">>)
        ELSE IF ~found
        THEN refuse(404, "Comic not found or unauthorized", <<"update", "respond">>)
        ELSE LibOutcome([NoResponse EXCEPT !.status = 200, !.success = TRUE],
                        (IF r.is_public THEN <<"select">> ELSE <<>>) \o <<"update", "respond">>,
                        [comics EXCEPT ![r.comic_id].is_public = r.is_public],
                        panels, files, credits)

UpdateComicVisibility ==
    /\ phase = "idle"
    /\ edits < MaxEdits
    /\ \E user \in Users, comic_id \in LibraryComicIds, is_public \in BOOLEAN,
          faults \in FaultSets(VisibilityCalls) :
        LET r == [NoRequest EXCEPT !.endpoint = "visibility", !.user = user,
                                   !.comic_id = comic_id, !.is_public = is_public]
        IN  HandleLibrary(r, UpdateVisibilityOutcome(r, faults))

(***************************************************************************)
(* DELETE /api/comics/user-comics/{comic_id}                               *)
(***************************************************************************)
DeleteCalls == {"remove", "delete"}

\* mutant: the comic is looked up by id alone
ComicCheckAnyone(user_id, comic_id) == comic_id \in DOMAIN comics

\* comics.select('id, title').eq('id', comic_id).eq('user_id', user_id) returns a row
ComicCheck(user_id, comic_id) ==
    comic_id \in DOMAIN comics /\ comics[comic_id].user_id = user_id

\* ComicStorageService.delete_comic: the files of the panels in panel_number order,
\* then the comic row (the panels go with it); any exception gives False
delete_comic(user_id, comic_id, faults) ==
    LET mine == PanelsOf(comic_id, panels)
        last == {p \in mine : \A q \in mine : panels[q].panel_number <= panels[p].panel_number}
        paths(ps) == {panels[p].storage_path : p \in ps}
        kept == [ok |-> FALSE, comics |-> comics, panels |-> panels, files |-> files]
    IN  IF ~ComicCheck(user_id, comic_id) THEN kept
        ELSE IF "remove" \in faults /\ mine # {}
        THEN [kept EXCEPT !.files = files \ paths(mine \ last)]
        ELSE IF "delete" \in faults
        THEN [kept EXCEPT !.files = files \ paths(mine)]
        ELSE [ok |-> TRUE, comics |-> Without(comics, {comic_id}),
              panels |-> Without(panels, mine), files |-> files \ paths(mine)]

DeleteComicOutcome(r, faults) ==
    LET done == delete_comic(r.user, r.comic_id, faults)
    IN  LibOutcome(IF done.ok THEN [NoResponse EXCEPT !.status = 200, !.success = TRUE]
                   ELSE HTTPException(404, "Comic not found or you don't have permission to delete it"),
                   <<"delete_comic", "respond">>,
                   done.comics, done.panels, done.files, credits)

DeleteComic ==
    /\ phase = "idle"
    /\ edits < MaxEdits
    /\ \E user \in Users, comic_id \in LibraryComicIds, faults \in FaultSets(DeleteCalls) :
        LET r == [NoRequest EXCEPT !.endpoint = "delete-comic", !.user = user,
                                   !.comic_id = comic_id]
        IN  HandleLibrary(r, DeleteComicOutcome(r, faults))

(***************************************************************************)
(* The response leaves and the request's data is dropped.                  *)
(***************************************************************************)
SendResponse ==
    /\ phase = "done"
    /\ phase' = "idle"
    /\ req' = NoRequest
    /\ resp' = NoResponse
    /\ trace' = <<>>
    /\ genargs' = <<>>
    /\ sent' = <<>>
    /\ synth' = NoSynth
    /\ UNCHANGED <<credits, dbvars, bvars, narrations, memo, avars, yvars, wvars, edits>>

BordersIdle == [uw |-> 1, uh |-> 1, px |-> <<<<0>>>>]

ServerIdle ==
    /\ comics = InitialComics
    /\ panels = InitialPanels
    /\ files = InitialFiles
    /\ uploads = 0
    /\ phase = "idle"
    /\ req = NoRequest
    /\ resp = NoResponse
    /\ trace = <<>>
    /\ genargs = <<>>
    /\ sent = <<>>
    /\ synth = NoSynth
    /\ narrations = 0
    /\ edits = 0

BordersAtRest == bimage = BordersIdle /\ bprev = BordersIdle /\ bpasses = 0
AuthIdle == auth_call = NoAuthCall /\ auth_result = NoAuthResult
StoryIdle == story_call = NoStoryCall /\ story_result = NoStoryResult
HooksIdle ==
    /\ profiles = InitialProfiles
    /\ hook_call = NoHookCall
    /\ hook_result = NoHookResult
    /\ hooks = 0

Init ==
    /\ credits \in [Users -> InitialBalances]
    /\ ServerIdle
    /\ memo = NoMemo
    /\ BordersAtRest
    /\ AuthIdle
    /\ StoryIdle
    /\ HooksIdle

Next ==
    \/ GenerateComicArt
    \/ GenerateThumbnail
    \/ RegeneratePanelImage
    \/ GenerateNarration
    \/ SendResponse

Spec == Init /\ [][Next]_vars

(***************************************************************************)
(* The panel and cover endpoints with the first probe request recorded.    *)
(***************************************************************************)
InitCompose ==
    /\ credits \in [Users -> InitialBalances]
    /\ ServerIdle
    /\ memo = [NoMemo EXCEPT !.on = TRUE]
    /\ BordersAtRest
    /\ AuthIdle
    /\ StoryIdle
    /\ HooksIdle

NextCompose ==
    \/ GenerateComicArt
    \/ GenerateThumbnail
    \/ SendResponse

SpecCompose == InitCompose /\ [][NextCompose]_vars

(***************************************************************************)
(* get_current_user on its own: every header and every answer of the auth *)
(* server.                                                                 *)
(***************************************************************************)
InitAuth ==
    /\ auth_call \in AuthCalls
    /\ auth_result = NoAuthResult
    /\ credits = [u \in Users |-> 0]
    /\ ServerIdle
    /\ memo = NoMemo
    /\ BordersAtRest
    /\ StoryIdle
    /\ HooksIdle

NextAuth == GetCurrentUser

SpecAuth == InitAuth /\ [][NextAuth]_vars

(***************************************************************************)
(* generate_story on its own: every answer of the text model.              *)
(***************************************************************************)
InitStory ==
    /\ story_call \in StoryCalls
    /\ story_result = NoStoryResult
    /\ credits = [u \in Users |-> 0]
    /\ ServerIdle
    /\ memo = NoMemo
    /\ BordersAtRest
    /\ AuthIdle
    /\ HooksIdle

NextStory == GenerateStory

SpecStory == InitStory /\ [][NextStory]_vars

(***************************************************************************)
(* The Stripe webhooks on their own.                                       *)
(***************************************************************************)
InitStripe ==
    /\ credits \in [Users -> InitialBalances]
    /\ HooksIdle
    /\ ServerIdle
    /\ memo = NoMemo
    /\ BordersAtRest
    /\ AuthIdle
    /\ StoryIdle

NextStripe ==
    \/ StripeWebhook
    \/ StripeWebhookStandalone

SpecStripe == InitStripe /\ [][NextStripe]_vars

(***************************************************************************)
(* The border normalizer on its own: every image up to MaxW x MaxH, passed *)
(* through remove_borders up to MaxPasses times.                           *)
(***************************************************************************)
PixelImages ==
    UNION {UNION {{[uw |-> 1, uh |-> 1, px |-> p] : p \in [1..h -> [1..w -> PixelValues]]}
                  : w \in 1..MaxW} : h \in 1..MaxH}

\* images with a line whose variance is exactly the default threshold:
\* np.var([0, 2, 6, 8]) = 10
ThresholdImages ==
    {[uw |-> 1, uh |-> 1, px |-> <<<<0, 2, 6, 8>>, <<7, 0, 0, 7>>>>],
     [uw |-> 1, uh |-> 1, px |-> <<<<0, 7>>, <<2, 0>>, <<6, 0>>, <<8, 7>>>>],
     [uw |-> 1, uh |-> 1, px |-> <<<<0, 2, 6, 8>>, <<1, 1, 5, 7>>>>]}

InitBorders ==
    /\ bimage \in PixelImages \cup ThresholdImages
    /\ bprev = bimage
    /\ bpasses = 0
    /\ credits = [u \in Users |-> 0]
    /\ ServerIdle
    /\ memo = NoMemo
    /\ AuthIdle
    /\ StoryIdle
    /\ HooksIdle

RemoveBordersPass ==
    /\ bpasses < MaxPasses
    /\ bprev' = bimage
    /\ bimage' = remove_borders(bimage, DefaultThreshold)
    /\ bpasses' = bpasses + 1
    /\ UNCHANGED <<svars, narrations, memo, avars, yvars, wvars, edits>>

NextBorders == RemoveBordersPass

SpecBorders == InitBorders /\ [][NextBorders]_vars

(***************************************************************************)
(* The library requests and the panel regeneration over a library of two   *)
(* saved comics.                                                           *)
(***************************************************************************)
InitLibrary ==
    /\ credits \in [Users -> InitialBalances]
    /\ \E v \in Libraries :
        /\ comics = LibraryComics(v)
        /\ panels = LibraryPanels(v)
        /\ files = LibraryFiles(v)
    /\ uploads = 0
    /\ phase = "idle"
    /\ req = NoRequest
    /\ resp = NoResponse
    /\ trace = <<>>
    /\ genargs = <<>>
    /\ sent = <<>>
    /\ synth = NoSynth
    /\ narrations = 0
    /\ edits = 0
    /\ memo = NoMemo
    /\ BordersAtRest
    /\ AuthIdle
    /\ StoryIdle
    /\ HooksIdle

\* panel regeneration over the library as it was saved, before any library request
RegenerateSavedPanel == edits = 0 /\ RegeneratePanelImage

NextLibrary ==
    \/ SaveComic
    \/ UpdatePanel
    \/ RegenerateSavedPanel
    \/ UpdateComicVisibility
    \/ DeleteComic
    \/ SendResponse

SpecLibrary == InitLibrary /\ [][NextLibrary]_vars

(***************************************************************************)
(* Properties.                                                             *)
(***************************************************************************)
Done(endpoint) == phase = "done" /\ req.endpoint = endpoint

\* what the request's payloads hold, read off the payload itself
Decodable(data) == data.enc = "ok" /\ data.img # NoImg
Base64Ok(data) == data.enc \in {"ok", "empty"}

\* C1: when a /generate request carries a previous_panel_context, the prompt handed
\* to the generator is exactly "Create the next scene using this context: " +
\* previous prompt + ". " + text_prompt.
C1_ContinuationPrompt ==
    (Done("generate") /\ req.previous_panel_context.present) =>
        \A i \in 1..Len(genargs) :
            /\ genargs[i].text_prompt =
                  "Create the next scene using this context: "
                     \o req.previous_panel_context.prompt \o ". " \o req.text_prompt
            /\ (req.text_prompt = "a dragon appears"
                  /\ req.previous_panel_context.prompt = "a hero stands on a hill")
               => genargs[i].text_prompt =
                     "Create the next scene using this context: a hero stands on a hill. a dragon appears"

C1_Witness ==
    /\ Done("generate")
    /\ req.previous_panel_context.present
    /\ req.text_prompt = "a dragon appears"
    /\ Len(genargs) = 1
    /\ resp.status = 200

C3_ContextBeforeReference ==
    (/\ Done("generate")
     /\ req.previous_panel_context.present
     /\ Decodable(req.previous_panel_context.image_data)
     /\ Decodable(req.reference_image)
     /\ sent # <<>>) =>
        ImagesOf(sent[1]) = <<req.previous_panel_context.image_data.img, req.reference_image.img>>

C3_Witness ==
    /\ Done("generate")
    /\ req.previous_panel_context.present
    /\ req.previous_panel_context.image_data = B64("P")
    /\ req.reference_image = B64("R")
    /\ Len(sent) = 1
    /\ ImagesOf(sent[1]) = <<"P", "R">>

\* C4: a /generate request whose text_prompt is empty or whitespace-only is rejected
\* with a validation error and the image model is never called for it.
WhitespaceOnly == {"", " "}
C4_BlankPromptRejected ==
    (Done("generate") /\ req.text_prompt \in WhitespaceOnly) =>
        /\ resp.status # 200
        /\ sent = <<>>

NoDecodablePart(out) ==
    out.called /\ ~out.raises /\ \A i \in 1..Len(out.parts) : out.parts[i].inline # "image"

\* C6: if the answer of the model holds no decodable image part, the request ends in
\* an error: no image is returned, none is substituted, and the call is not repeated.
C6_NoImageProduced ==
    (phase = "done" /\ NoDecodablePart(synth)) =>
        /\ resp.status = 500
        /\ ~resp.success
        /\ resp.image_data = NoData
        /\ resp.public_url = ""
        /\ Len(sent) = 1

C6_Witness ==
    /\ Done("generate")
    /\ synth = SynthParts(<<TextOnlyPart>>)
    /\ resp.status = 500
    /\ Len(sent) = 1

\* C7: a generation request (panel, thumbnail, regeneration) calls the image model at
\* most once; a failed call ends the request with an error response.
C7_SingleSynthesisCall ==
    /\ Len(sent) <= 1
    /\ (phase = "done" /\ synth.called /\ (synth.raises \/ NoDecodablePart(synth))) =>
          (Len(sent) = 1 /\ resp.status = 500)

C7_Witness ==
    /\ Done("regenerate")
    /\ synth = SynthRaises
    /\ Len(sent) = 1
    /\ resp.status = 500

\* the first image part the model answered with
AnsweredImage(out) ==
    LET inl == SelectSeq(out.parts, LAMBDA p : p.inline # "none")
    IN  Head(inl).image

\* C8: every successful /generate-thumbnail response carries an image of exactly
\* 600x800 pixels; the image of a /generate response is never resized.
C8_ThumbnailSize ==
    /\ (Done("generate-thumbnail") /\ resp.status = 200) =>
          ImageSize(resp.image_data.png) = <<600, 800>>
    /\ (Done("generate") /\ resp.status = 200) =>
          /\ "size" \notin DOMAIN resp.image_data.png
          /\ resp.image_data.png = remove_borders(AnsweredImage(synth), 10)

C8_Witness ==
    /\ Done("generate-thumbnail")
    /\ resp.status = 200
    /\ Size(AnsweredImage(synth)) = <<800, 600>>
    /\ Size(remove_borders(AnsweredImage(synth), 10)) = <<400, 300>>
    /\ ImageSize(resp.image_data.png) = <<600, 800>>

\* C9: border stripping is idempotent: a second pass over the result of
\* remove_borders returns it unchanged.
C9_Idempotent ==
    bpasses >= 2 => bimage = bprev

\* the first and last row and column of the image are not border lines
EdgesNonUniform(image) ==
    /\ ~is_border_line(RowLine(image, 1), 10)
    /\ ~is_border_line(RowLine(image, Len(image.px)), 10)
    /\ ~is_border_line(ColLine(image, 1), 10)
    /\ ~is_border_line(ColLine(image, Len(image.px[1])), 10)

\* C10: for an image whose first and last rows and columns are all non-uniform,
\* remove_borders returns the input image itself.
C10_NoBorderNoCrop ==
    (bpasses = 1 /\ EdgesNonUniform(bprev)) => bimage = bprev

C10_Witness ==
    /\ bpasses = 1
    /\ EdgesNonUniform(bprev)
    /\ Len(bprev.px) = 3
    /\ is_border_line(RowLine(bprev, 2), 10)
    /\ bimage = bprev

\* n^2 * np.var(line), an integer
ScaledVariance(line) == Len(line) * SumSq(line) - SumSeq(line) * SumSeq(line)

Exceeds(line, threshold) == ScaledVariance(line) > threshold * Len(line) * Len(line)
Reaches(line, threshold) == ScaledVariance(line) >= threshold * Len(line) * Len(line)

RowsExceeding(image) == {i \in 1..Len(image.px) : Exceeds(RowLine(image, i), 10)}
ColsExceeding(image) == {j \in 1..Len(image.px[1]) : Exceeds(ColLine(image, j), 10)}
RowsReaching(image) == {i \in 1..Len(image.px) : Reaches(RowLine(image, i), 10)}
ColsReaching(image) == {j \in 1..Len(image.px[1]) : Reaches(ColLine(image, j), 10)}

\* the pixels of rows rows and columns cols of image, both intervals
Box(image, rows, cols) ==
    [uw |-> image.uw, uh |-> image.uh,
     px |-> [i \in 1..Cardinality(rows) |->
               [j \in 1..Cardinality(cols) |->
                  image.px[SetMin(rows) + i - 1][SetMin(cols) + j - 1]]]]

Span(S) == SetMin(S)..SetMax(S)

\* C19 as stated: for an image with a row and a column whose variance exceeds
\* the threshold, remove_borders returns the crop from the first to the last
\* row, and the first to the last column, whose variance exceeds the threshold.
C19_CropExceeding ==
    (bpasses = 1 /\ RowsExceeding(bprev) # {} /\ ColsExceeding(bprev) # {})
        => bimage = Box(bprev, Span(RowsExceeding(bprev)), Span(ColsExceeding(bprev)))

\* C19, amended: for an image with a row and a column whose variance is at least
\* the threshold, remove_borders returns the crop from the first to the last row,
\* and the first to the last column, whose variance is at least the threshold,
\* variances taken on the uncropped input: a line is a border exactly when its
\* variance is strictly below the threshold.
C19_CropReaching ==
    (bpasses = 1 /\ RowsReaching(bprev) # {} /\ ColsReaching(bprev) # {})
        => bimage = Box(bprev, Span(RowsReaching(bprev)), Span(ColsReaching(bprev)))

C19_Witness ==
    /\ bpasses = 1
    /\ bprev.px = <<<<0, 2, 6, 8>>, <<7, 0, 0, 7>>>>
    /\ RowsReaching(bprev) = {1, 2}
    /\ RowsExceeding(bprev) = {2}
    /\ ColsReaching(bprev) = {1}
    /\ bimage.px = <<<<0>>, <<7>>>>

\* the instruction the claim gives for each pair (is_thumbnail, has_context)
Instruction(is_thumbnail, has_context) ==
    CASE is_thumbnail ->
           "You are a comic book cover art generator. 3:4 aspect ratio (portrait orientation)"
      [] ~is_thumbnail /\ has_context ->
           "You are a comic art generator creating the next scene in a comic sequence. 4:3 aspect ratio (landscape orientation)"
      [] ~is_thumbnail /\ ~has_context ->
           "You are a comic art generator. 4:3 aspect ratio (landscape orientation)"

TextsOf(parts) == SelectSeq(parts, LAMBDA p : p.type = "text")

\* C20: the system instruction is the cover one (portrait 3:4) whenever
\* is_thumbnail, else the continuation one with a context and the first-panel one
\* without (both landscape 4:3); every call to the image model carries exactly
\* that instruction for the arguments generate_comic_art was given; and
\* /generate-thumbnail passes neither a reference nor a previous-panel image.
C20_SystemInstruction ==
    /\ \A t \in BOOLEAN, c \in BOOLEAN : SystemPrompt(t, c) = Instruction(t, c)
    /\ (phase = "done" /\ genargs # <<>>) =>
          \A i \in 1..Len(sent) :
             TextsOf(sent[i]) =
                <<TextPart(PromptText(Instruction(genargs[1].is_thumbnail,
                                                  genargs[1].context_image_data # None),
                                      genargs[1].text_prompt))>>
    /\ (Done("generate-thumbnail") /\ genargs # <<>>) =>
          /\ genargs[1].is_thumbnail
          /\ genargs[1].reference_image_data = None
          /\ genargs[1].context_image_data = None
          /\ \A i \in 1..Len(sent) : ImagesOf(sent[i]) = <<>>

C20_Witness ==
    /\ Done("generate-thumbnail")
    /\ req.prompts = <<"a cat">>
    /\ resp.status = 200
    /\ sent = <<<<TextPart(PromptText(Instruction(TRUE, FALSE), CombinedPrompt(req.prompts)))>>>>

(***************************************************************************)
(* C11: when deduct_credits fails after an image, a cover, a regenerated   *)
(* panel or a narration was produced, the request still answers 200 with   *)
(* the artefact, and deduct_credits was called once, not again.            *)
(* A deduction that was called and left every balance as it was has failed:*)
(* every deduction takes at least one credit.                              *)
(***************************************************************************)
Count(steps, step) == Cardinality({i \in DOMAIN steps : steps[i] = step})
HasArtefact(response) ==
    \/ response.image_data # NoData
    \/ response.audio # ""
    \/ response.public_url # ""

C11_DeductFailureKeepsArtefact ==
    [][(phase' = "done" /\ Count(trace', "deduct_credits") > 0 /\ credits' = credits)
        => /\ resp'.status = 200
           /\ HasArtefact(resp')
           /\ Count(trace', "deduct_credits") = 1]_vars

\* a narration answered although the caller still has the highest balance after deduct_credits
C11_Witness ==
    /\ Done("generate-voiceover")
    /\ Count(trace, "deduct_credits") = 1
    /\ credits[req.user] = 10
    /\ resp.status = 200 /\ resp.audio # ""

(***************************************************************************)
(* C12: when has_sufficient_credits reports too few credits, every         *)
(* generation endpoint answers 402, calls no synthesis and deducts nothing.*)
(***************************************************************************)
GenerationEndpoints == {"generate", "generate-thumbnail", "regenerate", "generate-voiceover"}
Refused == trace = <<"has_sufficient_credits", "respond">>

C12_InsufficientCredits402 ==
    (phase = "done" /\ req.endpoint \in GenerationEndpoints /\ Refused)
        => /\ resp.status = 402
           /\ sent = <<>>
           /\ Count(trace, "generate_audio") = 0
           /\ Count(trace, "deduct_credits") = 0

(***************************************************************************)
(* C13: a /generate or /generate-thumbnail request that fails changes no   *)
(* state: deduct_credits is not called, every balance, table and stored    *)
(* file is as before.                                                      *)
(***************************************************************************)
C13_FailureMutatesNothing ==
    [][(phase' = "done" /\ req'.endpoint \in {"generate", "generate-thumbnail"}
            /\ resp'.status # 200)
        => /\ Count(trace', "deduct_credits") = 0
           /\ credits' = credits
           /\ UNCHANGED dbvars]_vars

\* a panel request that reached the model and failed, by a user who has credits
C13_Witness ==
    /\ Done("generate")
    /\ resp.status = 500
    /\ sent # <<>>
    /\ credits[req.user] = 10

(***************************************************************************)
(* C14: two /generate requests with the same text_prompt, reference_image  *)
(* and previous_panel_context are given the same composed prompt and send  *)
(* the same ordered parts to the model, whatever requests of whatever user *)
(* were handled before or between them.                                    *)
(***************************************************************************)
SameInputAsRemembered ==
    /\ Done("generate")
    /\ memo.set
    /\ ComposeKey(req) = memo.key
    /\ genargs # <<>>

ReturnedImage(out) ==
    LET inl == SelectSeq(out.parts, LAMBDA p : p.inline # "none")
    IN  out.called /\ ~out.raises /\ inl # <<>> /\ Head(inl).inline = "image"

StepOrder ==
    <<"has_sufficient_credits", "compose", "generate_content", "remove_borders",
      "image_to_base64", "deduct_credits", "respond">>
Position(step) == CHOOSE i \in DOMAIN StepOrder : StepOrder[i] = step
InOrder(steps) ==
    /\ \A i \in DOMAIN steps : \E j \in DOMAIN StepOrder : StepOrder[j] = steps[i]
    /\ \A i, j \in DOMAIN steps : i < j => Position(steps[i]) < Position(steps[j])

C15_StepOrder ==
    Done("generate")
        => /\ InOrder(trace)
           /\ trace[1] = "has_sufficient_credits"
           /\ trace[Len(trace)] = "respond"
           /\ Count(trace, "deduct_credits") > 0
                => /\ Count(trace, "generate_content") = 1
                   /\ Count(trace, "remove_borders") = 1
                   /\ ReturnedImage(synth)

C15_Witness ==
    /\ Done("generate")
    /\ trace = StepOrder

(***************************************************************************)
(* C16: get_current_user returns user data only for a header that starts   *)
(* with "Bearer ", whose token has exactly three dot-separated parts, and  *)
(* for which the auth server answered 200; in every other case it raises   *)
(* 401, and a malformed token causes no request to the auth server.        *)
(***************************************************************************)
\* the token read off the header: the pieces after "Bearer " up to the next space
RECURSIVE UpToSpace(_)
UpToSpace(text) ==
    IF text = <<>> \/ Head(text) = " " THEN <<>> ELSE <<Head(text)>> \o UpToSpace(Tail(text))
BearerHeader(header) ==
    header.present /\ Len(header.text) >= 2 /\ SubSeq(header.text, 1, 2) = <<"Bearer", " ">>
ThreeParts(header) ==
    LET token == UpToSpace(SubSeq(header.text, 3, Len(header.text)))
    IN  Cardinality({i \in DOMAIN token : token[i] = "."}) = 2
WellFormed(header) == BearerHeader(header) /\ ThreeParts(header)

C16_GetCurrentUser ==
    auth_result.done
        => /\ ~auth_result.raised
                => WellFormed(auth_call.header) /\ auth_call.answer.status = 200
           /\ auth_result.raised => auth_result.status = 401
           /\ ~(WellFormed(auth_call.header) /\ auth_call.answer.status = 200)
                => auth_result.raised
           /\ ~WellFormed(auth_call.header) => auth_result.requests = 0

\* a token of three parts accepted by the auth server
C16_Witness ==
    /\ auth_result.done
    /\ ~auth_result.raised
    /\ auth_result.user = "u1"
    /\ auth_result.requests = 1

(***************************************************************************)
(* C18: whatever the text model does (plain text, fenced json text,        *)
(* text that is no JSON, an exception), generate_story returns a string    *)
(* that json.loads accepts, and raises nothing.                            *)
(***************************************************************************)
C18_StoryIsJson ==
    story_result.done => ~story_result.raised /\ json_loads(story_result.text)

\* a fenced answer whose JSON is returned without the fences
C18_Witness ==
    /\ story_result.done
    /\ story_call.answer = AnswerText(<<FenceJson, Newline, JsonValue, Newline, Fence>>)
    /\ story_result.text = <<JsonValue>>

(***************************************************************************)
(* C17: a Stripe webhook request whose payload or signature does not       *)
(* verify is answered with 400 and changes no credit balance and no user   *)
(* profile; balances and profiles change only after construct_event        *)
(* returned an event.                                                      *)
(***************************************************************************)
C17_UnverifiedChangesNothing ==
    [][/\ (hook_call'.verified # "event" /\ hooks' # hooks)
            => hook_result'.status = 400 /\ credits' = credits /\ profiles' = profiles
       /\ (credits' # credits \/ profiles' # profiles) /\ hooks' # hooks
            => hook_call'.verified = "event"]_vars

\* a request with a bad signature was answered
C17_Witness ==
    /\ hook_result.done
    /\ hook_call.verified = "SignatureVerificationError"
    /\ hook_call.type = "payment_intent.succeeded"
    /\ hook_call.user_id = "u2"
    /\ hook_result.status = 400

(***************************************************************************)
(* C27: remove_borders returns a non-empty sub-rectangle of a non-empty    *)
(* input.                                                                  *)
(***************************************************************************)
NonEmpty(image) == Len(image.px) > 0 /\ Len(image.px[1]) > 0

\* the crop box of remove_borders is inside the image and not empty
BoxInside(image) ==
    LET top == FindTop(image, 10)
        bottom == FindBottom(image, 10)
        left == FindLeft(image, 10)
        right == FindRight(image, 10)
    IN  /\ 0 <= left /\ left < right /\ right <= Width(image)
        /\ 0 <= top /\ top < bottom /\ bottom <= Height(image)

SubRectangle(inner, outer) ==
    \E t \in 1..Len(outer.px), b \in 1..Len(outer.px),
       l \in 1..Len(outer.px[1]), r \in 1..Len(outer.px[1]) :
        t <= b /\ l <= r /\ inner = Box(outer, t..b, l..r)

\* C27 as stated: the result of remove_borders is a non-empty sub-rectangle of
\* the input, its crop box has 0 <= left < right <= width and 0 <= top < bottom
\* <= height, and an image with no row or column above the threshold is
\* returned unchanged.
C27_UniformUnchanged ==
    bpasses = 1 =>
        /\ NonEmpty(bimage) /\ SubRectangle(bimage, bprev) /\ BoxInside(bprev)
        /\ (RowsExceeding(bprev) = {} /\ ColsExceeding(bprev) = {}) => bimage = bprev

\* C27, amended: the result of remove_borders is a non-empty sub-rectangle of
\* the input, its crop box has 0 <= left < right <= width and 0 <= top < bottom
\* <= height, and an image with no row or column at or above the threshold is
\* returned unchanged.
C27_CropNonEmpty ==
    bpasses = 1 =>
        /\ NonEmpty(bimage) /\ SubRectangle(bimage, bprev) /\ BoxInside(bprev)
        /\ (RowsReaching(bprev) = {} /\ ColsReaching(bprev) = {}) => bimage = bprev

C27_Witness ==
    /\ bpasses = 1
    /\ bprev.px = <<<<7, 7>>, <<7, 7>>, <<7, 7>>>>
    /\ RowsReaching(bprev) = {} /\ ColsReaching(bprev) = {}
    /\ bimage = bprev

(***************************************************************************)
(* C24: a verified customer.subscription.updated or                        *)
(* customer.subscription.deleted event, on either webhook route, leaves    *)
(* every credit balance unchanged; in the profiles only status and         *)
(* plan_type may change.                                                   *)
(***************************************************************************)
SubscriptionChange ==
    /\ hooks' # hooks
    /\ hook_call'.verified = "event"
    /\ hook_call'.type \in {"customer.subscription.updated", "customer.subscription.deleted"}

SameButStatusAndPlan(old, new) ==
    [new EXCEPT !.status = old.status, !.plan_type = old.plan_type] = old

C24_SubscriptionKeepsCredits ==
    [][SubscriptionChange =>
          /\ credits' = credits
          /\ \A u \in DOMAIN profiles : SameButStatusAndPlan(profiles[u], profiles'[u])
          /\ hook_result'.status = 200]_vars

\* a plan change of u1's subscription was handled: the plan type is the new one
C24_Witness ==
    /\ hook_result.done
    /\ hook_call.route = "/api/stripe/webhook"
    /\ hook_call.verified = "event"
    /\ hook_call.type = "customer.subscription.updated"
    /\ hook_call.subscription = "sub_1"
    /\ hook_call.amount = 999
    /\ profiles["u1"].plan_type = "pro"
    /\ credits["u1"] = 10

(***************************************************************************)
(* C25: a generation request that succeeds and whose deduction went        *)
(* through takes from the caller exactly the credits its sufficiency check *)
(* required: 10 for /generate, /generate-thumbnail and panel regeneration, *)
(* 1 for a narration.                                                      *)
(***************************************************************************)
Required(endpoint) == IF endpoint = "generate-voiceover" THEN 1 ELSE 10

C25_DeductEqualsRequired ==
    [][(phase = "idle" /\ phase' = "done" /\ req'.endpoint \in GenerationEndpoints
            /\ resp'.status = 200 /\ credits' # credits)
        => credits' = [credits EXCEPT ![req'.user] = @ - Required(req'.endpoint)]]_vars

(***************************************************************************)
(* C21: panel regeneration and panel update leave a panel alone unless it  *)
(* exists and its comic belongs to the caller.                             *)
(***************************************************************************)
PanelRequest ==
    /\ phase = "idle" /\ phase' = "done"
    /\ req'.endpoint \in {"regenerate", "update-panel"}

PanelMissing == req'.panel_id \notin DOMAIN panels
NotTheOwner ==
    /\ ~PanelMissing
    /\ \/ panels[req'.panel_id].comic_id \notin DOMAIN comics
       \/ comics[panels[req'.panel_id].comic_id].user_id # req'.user

NothingDone ==
    /\ sent' = <<>>
    /\ Count(trace', "generate_audio") = 0
    /\ files' = files /\ panels' = panels /\ comics' = comics
    /\ credits' = credits

\* the request lacks what the handler asks for before it looks the panel up
FieldsMissing ==
    \/ req'.endpoint = "regenerate" /\ ~TruthyStr(req'.text_prompt)
    \/ req'.endpoint = "update-panel" /\ req'.narration = NullStr /\ req'.prompt = NullStr

\* C21 as stated: a regeneration or update request for a missing panel ends with
\* 404, one for a panel of another user's comic with 403, and neither calls the
\* image model or the TTS, uploads a file, changes a panel row or deducts a credit.
C21_MissingOrForeignPanel ==
    [][/\ (PanelRequest /\ PanelMissing) => (resp'.status = 404 /\ NothingDone)
       /\ (PanelRequest /\ NotTheOwner) => (resp'.status = 403 /\ NothingDone)]_vars

\* C21, amended: such a request calls no model and no TTS, uploads nothing, changes
\* no row and deducts nothing; it ends with 404 (missing) or 403 (not the owner)
\* unless it was refused before the panel lookup: with 422 when a required field
\* is missing, or, for a regeneration, with 402 by the credit check.
C21_ForeignPanelUntouched ==
    [][(PanelRequest /\ (PanelMissing \/ NotTheOwner)) =>
          /\ NothingDone
          /\ IF FieldsMissing THEN resp'.status = 422
             ELSE \/ resp'.status = 402 /\ req'.endpoint = "regenerate"
                                        /\ trace' = <<"has_sufficient_credits", "respond">>
                  \/ resp'.status = 404 /\ PanelMissing
                  \/ resp'.status = 403 /\ NotTheOwner
          /\ (req'.endpoint = "regenerate" /\ ~FieldsMissing /\ credits[req'.user] < 10)
                => resp'.status = 402]_vars

\* u2 tried to blank the narration of u1's panel
C21_Witness ==
    /\ Done("update-panel")
    /\ req.user = "u2" /\ req.panel_id = "p1" /\ req.narration = "" /\ req.regenerate_audio
    /\ resp.status = 403
    /\ panels["p1"].narration = "Once upon a time"

(***************************************************************************)
(* C22: update_comic_visibility publishes a comic only when it belongs to  *)
(* the caller and is complete; hiding a comic asks for ownership only.     *)
(***************************************************************************)
VisibilityRequest ==
    phase = "idle" /\ phase' = "done" /\ req'.endpoint = "visibility"

CallersComic == req'.comic_id \in DOMAIN comics /\ comics[req'.comic_id].user_id = req'.user

Filled(text) == text \notin {NullStr, "", " "}

\* the comic has a non-blank title, a non-blank narration on every panel numbered
\* above 0, and a panel 0
CompleteComic(c, rows, prows) ==
    /\ Filled(rows[c].title)
    /\ \A p \in DOMAIN prows :
          (prows[p].comic_id = c /\ prows[p].panel_number > 0) => Filled(prows[p].narration)
    /\ \E p \in DOMAIN prows : prows[p].comic_id = c /\ prows[p].panel_number = 0

Publishable == CallersComic /\ CompleteComic(req'.comic_id, comics, panels)

VisibilitySet(value) ==
    resp'.status = 200 /\ comics' = [comics EXCEPT ![req'.comic_id].is_public = value]

C22_PublishOnlyComplete ==
    [][VisibilityRequest =>
          /\ panels' = panels /\ files' = files /\ credits' = credits
          /\ resp'.status # 200 => comics' = comics
          /\ (req'.is_public /\ ~CallersComic) => resp'.status = 404
          /\ (req'.is_public /\ CallersComic /\ ~Publishable) => resp'.status = 400
          /\ (req'.is_public /\ Publishable) => (VisibilitySet(TRUE) \/ resp'.status = 500)
          /\ (~req'.is_public /\ CallersComic) => (VisibilitySet(FALSE) \/ resp'.status = 500)
          /\ (~req'.is_public /\ ~CallersComic) => resp'.status \in {404, 500}]_vars

\* u1 published the complete comic c1
C22_Witness ==
    /\ Done("visibility")
    /\ req.user = "u1" /\ req.comic_id = "c1" /\ req.is_public
    /\ resp.status = 200
    /\ comics["c1"].is_public
    /\ CompleteComic("c1", comics, panels)

(***************************************************************************)
(* C23: delete_comic removes the comic row and the stored panel files only *)
(* for a comic of the caller; for any other id it answers 404 and deletes  *)
(* nothing.                                                                *)
(***************************************************************************)
DeleteRequest ==
    phase = "idle" /\ phase' = "done" /\ req'.endpoint = "delete-comic"

PanelRowsOf(c) == {p \in DOMAIN panels : panels[p].comic_id = c}

PanelFilesOf(c) == {panels[p].storage_path : p \in PanelRowsOf(c)}

NothingDeleted == comics' = comics /\ panels' = panels /\ files' = files

\* the comic row, its panel rows and the files at their storage paths are gone,
\* and every other row and file is kept
ComicDeleted(c) ==
    /\ DOMAIN comics' = DOMAIN comics \ {c}
    /\ \A d \in DOMAIN comics' : comics'[d] = comics[d]
    /\ DOMAIN panels' = DOMAIN panels \ PanelRowsOf(c)
    /\ \A p \in DOMAIN panels' : panels'[p] = panels[p]
    /\ files' = files \ PanelFilesOf(c)

C23_DeleteOnlyOwnComic ==
    [][DeleteRequest =>
          /\ credits' = credits
          /\ resp'.status \in {200, 404}
          /\ ~CallersComic => (resp'.status = 404 /\ NothingDeleted)
          /\ resp'.status = 200 => (CallersComic /\ ComicDeleted(req'.comic_id))
          /\ resp'.status = 404 =>
                /\ comics' = comics /\ panels' = panels
                /\ files' \subseteq files
                /\ files \ files' \subseteq PanelFilesOf(req'.comic_id)]_vars

\* u1 deleted the comic c1 and u2's comic is still there
C23_Witness ==
    /\ Done("delete-comic")
    /\ req.user = "u1" /\ req.comic_id = "c1"
    /\ resp.status = 200
    /\ "c1" \notin DOMAIN comics
    /\ "c2" \in DOMAIN comics
    /\ \A p \in DOMAIN panels : panels[p].comic_id = "c2"
    /\ PanelPath("u1", "c1", 1) \notin files

(***************************************************************************)
(* C26: in every state reached by saving a comic, updating or regenerating *)
(* a panel, and changing visibility, every public comic is complete: its   *)
(* title is not blank, every panel numbered above 0 has a narration, and   *)
(* it has a panel 0.                                                       *)
(***************************************************************************)
C26_PublicComicsComplete ==
    \A c \in DOMAIN comics : comics[c].is_public => CompleteComic(c, comics, panels)

====
